---- MODULE Spec2Model ----
(***************************************************************************)
(* Model of mtpy.core.z.Z, the impedance tensor object of mtpy.            *)
(*                                                                         *)
(* Numbers.  Arithmetic is exact: a complex number is a pair <<re, im>> of *)
(* integers, a resistivity is a reduced fraction <<num, den>>, a phase and *)
(* a rotation angle are whole degrees.  The tensor elements are drawn from *)
(* the complex numbers whose argument is a multiple of 45 degrees and the  *)
(* rotation angles from the multiples of 90 degrees, so that every value   *)
(* the code computes is representable without rounding.                    *)
(*                                                                         *)
(* Arrays.  A numpy array is a record [shape, dtype, data]; data is the    *)
(* sequence of its 2x2 blocks when the array is Nx2x2 or 2x2, the sequence *)
(* of its scalars when it is a 1-D array of frequencies or angles, and is  *)
(* left empty for an array whose elements the code never reads.            *)
(*                                                                         *)
(* Calls.  call is the last call made on the instance, exc the exception   *)
(* it raised ("" when it returned), exc_index the ordinal of a frequency    *)
(* that the message of the exception names (0 when it names none) and ret  *)
(* the value the call returned.  tip is the Tipper instance, a record of   *)
(* its attributes.                                                         *)
(***************************************************************************)
EXTENDS Integers, Sequences, FiniteSets, TLC

VARIABLES z, z_err, freq, rotation_angle,
          resistivity, resistivity_err, phase, phase_err,
          exc, exc_index, call, ret, nops, tip

vars == <<z, z_err, freq, rotation_angle,
          resistivity, resistivity_err, phase, phase_err,
          exc, exc_index, call, ret, nops, tip>>

(***************************************************************************)
(* Bounds of the model                                                     *)
(***************************************************************************)
MaxOps == 2
MaxAbs == 4

(***************************************************************************)
(* Exact arithmetic                                                        *)
(***************************************************************************)
Min2(a, b) == IF a <= b THEN a ELSE b

RECURSIVE Gcd(_, _)
Gcd(a, b) == IF b = 0 THEN a ELSE Gcd(b, a % b)

Frac(n, d) == LET g == Gcd(n, d) IN <<n \div g, d \div g>>

CAdd(a, b) == <<a[1] + b[1], a[2] + b[2]>>

CScale(k, a) == <<k * a[1], k * a[2]>>

Norm2(c) == c[1] * c[1] + c[2] * c[2]

\* math.degrees(cmath.phase(c)) for c on one of the eight principal directions
PhaseDeg(c) ==
    CASE c[2] = 0 /\ c[1] >= 0 -> 0
      [] c[2] = 0 /\ c[1] < 0 -> 180
      [] c[1] = 0 /\ c[2] > 0 -> 90
      [] c[1] = 0 /\ c[2] < 0 -> -90
      [] c[1] = c[2] /\ c[1] > 0 -> 45
      [] c[1] = c[2] /\ c[1] < 0 -> -135
      [] c[1] = -c[2] /\ c[2] > 0 -> 135
      [] c[1] = -c[2] /\ c[2] < 0 -> -45

\* a resistivity that leaves out the division by the frequency
ResOf_nofreq(c, f) == Frac(Norm2(c), 5)

\* np.abs(c) ** 2 / f * 0.2
ResOf(c, f) == Frac(Norm2(c), 5 * f)

\* the unit step (cos, sin scaled to integers) of a principal direction
DirOf(deg) ==
    CASE deg = 0 -> <<1, 0>>
      [] deg = 45 -> <<1, 1>>
      [] deg = 90 -> <<0, 1>>
      [] deg = 135 -> <<-1, 1>>
      [] deg = 180 -> <<-1, 0>>
      [] deg = -135 -> <<-1, -1>>
      [] deg = -90 -> <<0, -1>>
      [] deg = -45 -> <<1, -1>>

\* cmath.rect(np.sqrt(5 * f * res), np.radians(deg))
RectOf(f, res, deg) ==
    LET d == DirOf(deg)
        a == CHOOSE k \in 0..MaxAbs : k * k * Norm2(d) * res[2] = 5 * f * res[1]
    IN  CScale(a, d)

(***************************************************************************)
(* numpy arrays                                                            *)
(***************************************************************************)
None == [shape |-> <<>>, dtype |-> "NoneType", data |-> <<>>]

ndarray(shape, dtype, data) == [shape |-> shape, dtype |-> dtype, data |-> data]

\* len(a): the first dimension
len(a) == a.shape[1]

ndim(a) == Len(a.shape)

\* z_array.dtype in ['complex', 'float', 'int']
IsNumeric(a) == a.dtype \in {"complex", "float", "int"}

IsNx2x2(a) == ndim(a) = 3 /\ a.shape[2] = 2 /\ a.shape[3] = 2

Is2x2(a) == ndim(a) = 2 /\ a.shape = <<2, 2>>

Mat(a, b, c, d) == <<<<a, b>>, <<c, d>>>>

ZeroRes == <<0, 1>>

ZeroErr == <<"zero">>

(***************************************************************************)
(* Error propagation helpers of mtpy.utils.calculator, kept as terms       *)
(***************************************************************************)
\* a standard deviation given as input
Std(k) == <<"std", k>>

\* MTcc.z_error2r_phi_error(x, x_error, y, y_error) -> (r_err, phi_err)
z_error2r_phi_error(x, x_error, y, y_error) ==
    [r_err |-> <<"r_err", x, x_error, y, y_error>>,
     phi_err |-> <<"phi_err", x, x_error, y, y_error>>]

(***************************************************************************)
(* The Z instance: one record per object state.  exc is the exception the  *)
(* last call raised ("" when it returned normally).                        *)
(***************************************************************************)
\* what a call that returns nothing (or raises) leaves as its value
NoRet == [op |-> ""]

Float0 == ndarray(<<>>, "float", <<0>>)

isfloat(a) == ndim(a) = 0 /\ a.dtype = "float"

\* np.zeros((n)) and np.repeat(x, n) for a 1-D array
repeat(x, n) == ndarray(<<n>>, "float", [i \in 1..n |-> x])

\* Z._compute_res_phase: the loop stops at the first read that is out of
\* range, leaving the entries it has not reached at zero
_compute_res_phase(s) ==
    IF s.freq = None THEN s
    ELSE IF s.z = None THEN s
    ELSE
      LET N == len(s.z)
          hasErr == s.z_err # None
          K1 == len(s.freq)
          K2 == IF hasErr THEN len(s.z_err) ELSE N
          ok == IsNx2x2(s.z)
          F == IF ok THEN Min2(N, Min2(K1, K2)) ELSE 0
          atErr == ok /\ F < N /\ F < K1
          done(i, r, c) == i <= F \/ (atErr /\ i = F + 1 /\ r = 1 /\ c = 1)
          zz(i, r, c) == s.z.data[i][r][c]
          ee(i, r, c) == z_error2r_phi_error(zz(i, r, c)[1], s.z_err.data[i][r][c],
                                             zz(i, r, c)[2], s.z_err.data[i][r][c])
      IN [s EXCEPT
           !.resistivity_err =
               IF hasErr
               THEN ndarray(s.z_err.shape, s.z_err.dtype,
                      [i \in 1..K2 |-> [r \in 1..2 |-> [c \in 1..2 |->
                         IF i <= F
                         THEN <<"0.4*abs(z)/freq*r_err", Norm2(zz(i, r, c)),
                                s.freq.data[i], ee(i, r, c).r_err>>
                         ELSE ZeroErr]]])
               ELSE None,
           !.phase_err =
               IF hasErr
               THEN ndarray(s.z_err.shape, s.z_err.dtype,
                      [i \in 1..K2 |-> [r \in 1..2 |-> [c \in 1..2 |->
                         IF i <= F THEN ee(i, r, c).phi_err ELSE ZeroErr]]])
               ELSE None,
           !.resistivity =
               ndarray(s.z.shape, "float",
                 IF ok
                 THEN [i \in 1..N |-> [r \in 1..2 |-> [c \in 1..2 |->
                         IF done(i, r, c)
                         THEN ResOf(zz(i, r, c), s.freq.data[i])
                         ELSE ZeroRes]]]
                 ELSE <<>>),
           !.phase =
               ndarray(s.z.shape, "float",
                 IF ok
                 THEN [i \in 1..N |-> [r \in 1..2 |-> [c \in 1..2 |->
                         IF done(i, r, c) THEN PhaseDeg(zz(i, r, c)) ELSE 0]]]
                 ELSE <<>>),
           !.exc = IF F < N THEN "IndexError" ELSE ""]

\* try: self._compute_res_phase() / except IndexError: logger.error(...)
TryCompute(s) ==
    LET t == _compute_res_phase(s)
    IN  IF t.exc = "IndexError" THEN [t EXCEPT !.exc = ""] ELSE t

\* a 2x2 numeric array is promoted to a 1x2x2 complex array
Promote(a) ==
    IF a # None /\ Is2x2(a) /\ IsNumeric(a)
    THEN ndarray(<<1, 2, 2>>, "complex", a.data)
    ELSE a

\* Z.__init__(z_array, z_err_array, freq)
__init__(z_array, z_err_array, freq_arg) ==
    LET z0 == Promote(z_array)
        s0 == [z |-> z0,
               z_err |-> Promote(z_err_array),
               freq |-> freq_arg,
               rotation_angle |-> IF z0 # None THEN repeat(0, len(z0)) ELSE Float0,
               resistivity |-> None, resistivity_err |-> None,
               phase |-> None, phase_err |-> None,
               exc |-> ""]
    IN  IF s0.z # None THEN _compute_res_phase(s0) ELSE s0

\* Z._set_freq(lo_freq), the setter of Z.freq
_set_freq(s, lo_freq) ==
    LET lo == IF ndim(lo_freq) = 0 THEN ndarray(<<1>>, "float", lo_freq.data)
              ELSE lo_freq
        s0 == [s EXCEPT !.exc = ""]
    IN  IF s.z # None /\ ndim(s.z) = 3 /\ len(lo) # len(s.z)
        THEN s0
        ELSE LET s1 == [s0 EXCEPT !.freq = lo]
             IN  IF s1.z # None THEN TryCompute(s1) ELSE s1

\* Z._set_z(z_array), the setter of Z.z
_set_z(s, z_array) ==
    LET s0 == [s EXCEPT !.exc = ""]
        s1 == IF IsNx2x2(z_array) /\ IsNumeric(z_array)
              THEN [s0 EXCEPT !.z = z_array]
              ELSE s0
    IN  IF isfloat(s1.rotation_angle) /\ s1.z = None
        THEN [s1 EXCEPT !.exc = "TypeError"]
        ELSE LET s2 == IF isfloat(s1.rotation_angle)
                       THEN [s1 EXCEPT !.rotation_angle =
                                 repeat(s1.rotation_angle.data[1], len(s1.z))]
                       ELSE s1
             IN  IF s2.z # None THEN TryCompute(s2) ELSE s2

\* Z._set_z_err(z_err_array), the setter of Z.z_err
_set_z_err(s, z_err_array) ==
    LET s0 == [s EXCEPT !.exc = ""]
    IN  IF s.z = None
        THEN [s0 EXCEPT !.exc = "AttributeError"]
        ELSE LET s1 == [s0 EXCEPT !.z_err = z_err_array]
             IN  IF s1.z_err # None /\ s1.z # None THEN TryCompute(s1) ELSE s1

(***************************************************************************)
(* Rotation of one 2x2 matrix (mtpy.utils.calculator)                      *)
(***************************************************************************)
CosOf(deg) == CASE deg = 0 -> 1 [] deg = 90 -> 0 [] deg = 180 -> -1 [] deg = 270 -> 0

SinOf(deg) == CASE deg = 0 -> 0 [] deg = 90 -> 1 [] deg = 180 -> 0 [] deg = 270 -> -1

\* MTcc.rotatematrix_incl_errors(inmatrix, angle, inmatrix_err):
\* R(angle) M R(angle)^T; at a multiple of 90 degrees every rotated element
\* is plus or minus one source element and carries that element's error
rotatematrix_incl_errors(M, angle, Merr, hasErr) ==
    LET c == CosOf(angle % 360)
        sn == SinOf(angle % 360)
        rm(j) == <<CAdd(CScale(c, M[1][j]), CScale(-sn, M[2][j])),
                   CAdd(CScale(sn, M[1][j]), CScale(c, M[2][j]))>>
        a == rm(1)
        b == rm(2)
    IN  [rot |-> Mat(CAdd(CScale(c, a[1]), CScale(-sn, b[1])),
                     CAdd(CScale(sn, a[1]), CScale(c, b[1])),
                     CAdd(CScale(c, a[2]), CScale(-sn, b[2])),
                     CAdd(CScale(sn, a[2]), CScale(c, b[2]))),
         err |-> IF ~hasErr THEN <<>>
                 ELSE IF sn = 0 THEN Merr
                 ELSE Mat(Merr[2][2], Merr[2][1], Merr[1][2], Merr[1][1])]

(***************************************************************************)
(* Z.set_res_phase and Z.rotate                                            *)
(***************************************************************************)
\* np.linalg.norm(np.imag(a)) != 0: an input with a non-zero imaginary part
\* is an array of dtype complex whose elements are not read
HasImag(a) == a.dtype = "complex"

\* the validation without the raise: a frequency or imaginary-part
\* violation is logged and the call returns, as a shape violation is
validate_res_phase_lenient(s, res_array, phase_array) ==
    IF s.z # None /\ (s.z.shape # res_array.shape \/ s.z.shape # phase_array.shape)
    THEN "return"
    ELSE IF s.z = None /\ res_array.shape # phase_array.shape
    THEN "return"
    ELSE IF s.freq = None \/ len(s.freq) # len(res_array)
    THEN "return"
    ELSE IF HasImag(res_array) \/ HasImag(phase_array)
    THEN "return"
    ELSE ""

\* The validation that opens Z.set_res_phase: "return" when a shape check
\* logs and returns, the name of the exception when one is raised, "" when
\* the arguments pass
validate_res_phase(s, res_array, phase_array) ==
    IF s.z # None /\ (s.z.shape # res_array.shape \/ s.z.shape # phase_array.shape)
    THEN "return"
    ELSE IF s.z = None /\ res_array.shape # phase_array.shape
    THEN "return"
    ELSE IF s.freq = None \/ len(s.freq) # len(res_array)
    THEN "MTpyError_EDI"
    ELSE IF HasImag(res_array) \/ HasImag(phase_array)
    THEN "MTpyError_inputarguments"
    ELSE ""

\* Z.set_res_phase(res_array, phase_array, reserr_array, phaseerr_array)
set_res_phase(s, res_array, phase_array, reserr_array, phaseerr_array) ==
    LET s0 == [s EXCEPT !.exc = ""]
        z_new == ndarray(res_array.shape, "complex",
                   [i \in 1..len(res_array) |-> [r \in 1..2 |-> [c \in 1..2 |->
                       RectOf(s.freq.data[i], res_array.data[i][r][c],
                              phase_array.data[i][r][c])]]])
        s1 == _set_z(s0, z_new)
        z_err_new == ndarray(reserr_array.shape, "float",
                   [i \in 1..len(reserr_array) |-> [r \in 1..2 |-> [c \in 1..2 |->
                       <<"max(propagate_error_polar2rect)",
                         s.freq.data[i], res_array.data[i][r][c],
                         reserr_array.data[i][r][c],
                         phase_array.data[i][r][c],
                         phaseerr_array.data[i][r][c]>>]]])
        v == validate_res_phase(s, res_array, phase_array)
    IN  IF v = "return"
        THEN s0
        ELSE IF v # ""
        THEN [s0 EXCEPT !.exc = v]
        ELSE IF reserr_array = None \/ phaseerr_array = None
        THEN s1
        ELSE IF s1.z_err # None /\ (s1.z_err.shape # reserr_array.shape
                                     \/ s1.z_err.shape # phaseerr_array.shape)
        THEN s1
        ELSE IF s1.z_err = None /\ reserr_array.shape # phaseerr_array.shape
        THEN s1
        ELSE IF len(reserr_array) > len(res_array)
        THEN [s1 EXCEPT !.exc = "IndexError"]
        ELSE _compute_res_phase(_set_z_err(s1, z_err_new))

\* a rotation angle left as it was
angle_kept(oldangle, angle) == oldangle

\* a rotation angle that replaces the held one instead of adding to it
angle_overwritten(oldangle, angle) == angle % 360

\* a rotation angle accumulated without the reduction mod 360
angle_unreduced(oldangle, angle) == oldangle + angle

\* (oldangle + lo_angles[ii]) % 360
accumulate_angle(oldangle, angle) == (oldangle + angle) % 360

\* Z.rotate(alpha); alpha is a number (shape <<>>) or a 1-D array of angles
rotate(s, alpha) ==
    LET s0 == [s EXCEPT !.exc = ""]
        n == len(s.z)
        lo_angles == IF ndim(alpha) = 0 \/ len(alpha) = 1
                     THEN [ii \in 1..n |-> alpha.data[1] % 360]
                     ELSE [ii \in 1..len(alpha) |-> alpha.data[ii] % 360]
        nrot == len(s.rotation_angle)
        s1 == [s0 EXCEPT !.rotation_angle =
                  ndarray(<<nrot>>, "float",
                     [ii \in 1..nrot |->
                        accumulate_angle(s.rotation_angle.data[ii], lo_angles[ii])])]
        hasErr == s.z_err # None
        rr(i) == rotatematrix_incl_errors(s.z.data[i], lo_angles[i],
                     IF hasErr THEN s.z_err.data[i] ELSE <<>>, hasErr)
        z_rot == ndarray(s.z.shape, s.z.dtype, [i \in 1..n |-> rr(i).rot])
        z_err_rot == IF hasErr
                     THEN ndarray(s.z_err.shape, s.z_err.dtype,
                            [i \in 1..len(s.z_err) |->
                               IF i <= n THEN rr(i).err ELSE s.z_err.data[i]])
                     ELSE None
        s2 == _set_z(s1, z_rot)
        s3 == IF s2.z_err # None THEN _set_z_err(s2, z_err_rot) ELSE s2
    IN  IF s.z = None THEN s0
        ELSE IF Len(lo_angles) < nrot THEN [s0 EXCEPT !.exc = "IndexError"]
        ELSE IF Len(lo_angles) # n THEN s1
        ELSE IF n > 0 /\ (~IsNx2x2(s.z) \/ (hasErr /\ len(s.z_err) < n))
        THEN [s1 EXCEPT !.exc = "IndexError"]
        ELSE _compute_res_phase(s3)

(***************************************************************************)
(* Exact complex fractions: <<re, im, den>> is (re + im j) / den, den > 0, *)
(* in lowest terms                                                         *)
(***************************************************************************)
AbsI(x) == IF x < 0 THEN -x ELSE x

QNorm(re, im, den) ==
    LET g == Gcd(Gcd(AbsI(re), AbsI(im)), AbsI(den))
        sg == IF den < 0 THEN -1 ELSE 1
    IN  <<sg * (re \div g), sg * (im \div g), sg * (den \div g)>>

QOf(c) == <<c[1], c[2], 1>>

QZero == <<0, 0, 1>>

QAdd(p, q) == QNorm(p[1] * q[3] + q[1] * p[3], p[2] * q[3] + q[2] * p[3], p[3] * q[3])

QNeg(p) == <<-p[1], -p[2], p[3]>>

QMul(p, q) == QNorm(p[1] * q[1] - p[2] * q[2], p[1] * q[2] + p[2] * q[1], p[3] * q[3])

\* p / q for q # 0
QDiv(p, q) ==
    QNorm((p[1] * q[1] + p[2] * q[2]) * q[3],
          (p[2] * q[1] - p[1] * q[2]) * q[3],
          p[3] * Norm2(q))

\* the product of two 2x2 matrices of fractions
QMatMul(A, B) ==
    [r \in 1..2 |-> [c \in 1..2 |->
        QAdd(QMul(A[r][1], B[1][c]), QMul(A[r][2], B[2][c]))]]

\* a 2x2 matrix of complex integers as a matrix of fractions
QMat(M) == [r \in 1..2 |-> [c \in 1..2 |-> QOf(M[r][c])]]

\* a 2x2 matrix of integers as a matrix of fractions
QReal(M) == [r \in 1..2 |-> [c \in 1..2 |-> <<M[r][c], 0, 1>>]]

QIdentity == Mat(<<1, 0, 1>>, QZero, QZero, <<1, 0, 1>>)

(***************************************************************************)
(* Z.remove_ss                                                             *)
(***************************************************************************)
\* np.sqrt of a factor that is a perfect square
sqrt(f) == CHOOSE k \in 0..MaxAbs : k * k = f

\* a row divided by the factor itself, the resistivity scale
correct_row_by_factor(zrow, factor) ==
    [c \in 1..2 |-> QDiv(QOf(zrow[c]), <<factor, 0, 1>>)]

\* self.z[idx_f, r, :] / np.sqrt(lo_factors[idx_f])
correct_row(zrow, factor) ==
    [c \in 1..2 |-> QDiv(QOf(zrow[c]), <<sqrt(factor), 0, 1>>)]

\* the list of factors that one argument of remove_ss yields: a number and a
\* sequence of length 1 are repeated len(z) times; the branch of a longer
\* sequence reads the local x_factor (y_factor) that was never assigned
lo_factors(s, reduce_res_factor) ==
    IF ndim(reduce_res_factor) = 0 \/ len(reduce_res_factor) = 1
    THEN IF s.z = None THEN [exc |-> "TypeError", lo |-> <<>>]
         ELSE [exc |-> "", lo |-> [i \in 1..len(s.z) |-> reduce_res_factor.data[1]]]
    ELSE [exc |-> "UnboundLocalError", lo |-> <<>>]

\* Z.remove_ss(reduce_res_factor_x, reduce_res_factor_y): [exc, ret], ret the
\* pair (static_shift, z_corrected)
remove_ss(s, reduce_res_factor_x, reduce_res_factor_y) ==
    LET x == lo_factors(s, reduce_res_factor_x)
        y == lo_factors(s, reduce_res_factor_y)
        n == len(s.z)
    IN  IF x.exc # "" THEN [exc |-> x.exc, ret |-> NoRet]
        ELSE IF y.exc # "" THEN [exc |-> y.exc, ret |-> NoRet]
        ELSE IF n > 0 /\ ~IsNx2x2(s.z) THEN [exc |-> "IndexError", ret |-> NoRet]
        ELSE [exc |-> "",
              ret |-> [op |-> "remove_ss",
                       static_shift |-> ndarray(<<n, 2, 2>>, "float",
                           [i \in 1..n |-> Mat(sqrt(x.lo[i]), 0, 0, sqrt(y.lo[i]))]),
                       z_corrected |-> ndarray(s.z.shape, "complex",
                           [i \in 1..n |-> <<correct_row(s.z.data[i][1], x.lo[i]),
                                             correct_row(s.z.data[i][2], y.lo[i])>>])]]

(***************************************************************************)
(* Z.remove_distortion                                                     *)
(***************************************************************************)
\* the determinant of a 2x2 matrix of integers
Det2(M) == M[1][1] * M[2][2] - M[1][2] * M[2][1]

\* the inverse of a 2x2 matrix of integers, as fractions
Inv2(M) ==
    LET d == <<Det2(M), 0, 1>>
    IN  Mat(QDiv(<<M[2][2], 0, 1>>, d), QDiv(<<-M[1][2], 0, 1>>, d),
            QDiv(<<-M[2][1], 0, 1>>, d), QDiv(<<M[1][1], 0, 1>>, d))

ZeroErrMat == Mat(ZeroErr, ZeroErr, ZeroErr, ZeroErr)

\* MTcc.invertmatrix_incl_errors(inmatrix, inmatrix_err) -> (inv, inv_err):
\* the analytic inverse and the first-order error of its elements, which is
\* zero when every input error is zero
invertmatrix_incl_errors(inmatrix, inmatrix_err) ==
    [inv |-> Inv2(inmatrix),
     err |-> IF inmatrix_err = ZeroErrMat THEN ZeroErrMat
             ELSE [r \in 1..2 |-> [c \in 1..2 |->
                      <<"inv_err", r, c, inmatrix, inmatrix_err>>]]]

\* DI = distortion_tensor.I with the LinAlgError of a singular matrix left
\* uncaught
invert_distortion_uncaught(D) ==
    IF Det2(D) = 0 THEN [exc |-> "LinAlgError", DI |-> <<>>]
    ELSE [exc |-> "", DI |-> Inv2(D)]

\* DI = distortion_tensor.I; a singular matrix raises MTpyError_Z
invert_distortion(D) ==
    IF Det2(D) = 0 THEN [exc |-> "MTpyError_Z", DI |-> <<>>]
    ELSE [exc |-> "", DI |-> Inv2(D)]

\* np.abs(DI_err[ii, k] * z[idx_f, k, jj]): an error of the inverse times a
\* tensor element
abs_err_times_z(di_err, zelem) ==
    IF di_err = ZeroErr \/ zelem = <<0, 0>> THEN ZeroErr
    ELSE <<"abs(a*b)", di_err, zelem>>

\* np.abs(DI[ii, k] * z_err[idx_f, k, jj]): an element of the inverse times a
\* tensor error, which is not negative
abs_di_times_err(di, zerr) ==
    IF di = QZero \/ zerr = ZeroErr THEN ZeroErr
    ELSE IF di = <<1, 0, 1>> \/ di = <<-1, 0, 1>> THEN zerr
    ELSE <<"abs(a*b)", <<AbsI(di[1]), 0, di[3]>>, zerr>>

\* np.sum of the summands that are not zero
sum_terms(terms) ==
    LET nz == SelectSeq(terms, LAMBDA x : x # ZeroErr)
    IN  IF Len(nz) = 0 THEN ZeroErr
        ELSE IF Len(nz) = 1 THEN nz[1]
        ELSE <<"sum", nz>>

\* Z.remove_distortion(distortion_tensor, distortion_err_tensor) for a real
\* 2x2 distortion_tensor: [exc, ret], ret the triple
\* (distortion_tensor, z_corrected, z_corrected_err)
remove_distortion(s, distortion_tensor, distortion_err_tensor) ==
    LET D == distortion_tensor.data[1]
        D_err == IF distortion_err_tensor = None THEN ZeroErrMat
                 ELSE distortion_err_tensor.data[1]
        inv == invert_distortion(D)
        DI == inv.DI
        DI_err == invertmatrix_incl_errors(D, D_err).err
        n == len(s.z)
        k == len(s.z_err)
        err(idx_f) ==
            [ii \in 1..2 |-> [jj \in 1..2 |->
                sum_terms(<<abs_err_times_z(DI_err[ii][1], s.z.data[idx_f][1][jj]),
                            abs_di_times_err(DI[ii][1], s.z_err.data[idx_f][1][jj]),
                            abs_err_times_z(DI_err[ii][2], s.z.data[idx_f][2][jj]),
                            abs_di_times_err(DI[ii][2], s.z_err.data[idx_f][2][jj])>>)]]
    IN  IF inv.exc # "" THEN [exc |-> inv.exc, ret |-> NoRet]
        ELSE IF s.z = None THEN [exc |-> "TypeError", ret |-> NoRet]
        ELSE IF n > 0 /\ ~IsNx2x2(s.z) THEN [exc |-> "ValueError", ret |-> NoRet]
        ELSE IF n > 0 /\ s.z_err = None THEN [exc |-> "TypeError", ret |-> NoRet]
        ELSE IF s.z_err # None /\ k < n THEN [exc |-> "IndexError", ret |-> NoRet]
        ELSE [exc |-> "",
              ret |-> [op |-> "remove_distortion",
                       distortion_tensor |-> D,
                       z_corrected |-> ndarray(s.z.shape, "complex",
                           [i \in 1..n |-> QMatMul(DI, QMat(s.z.data[i]))]),
                       z_corrected_err |-> ndarray(s.z_err.shape, s.z_err.dtype,
                           [i \in 1..k |-> IF i <= n THEN err(i) ELSE ZeroErrMat])]]

(***************************************************************************)
(* Z.inverse, Z.only1d                                                     *)
(***************************************************************************)
\* the determinant of a 2x2 matrix of complex integers
CDet(M) ==
    LET ad == QMul(QOf(M[1][1]), QOf(M[2][2]))
        bc == QMul(QOf(M[1][2]), QOf(M[2][1]))
    IN  QAdd(ad, QNeg(bc))

\* the adjugate in place of the inverse: the division by the determinant is
\* left out
matrix_I_adjugate(M) ==
    IF CDet(M) = QZero THEN [exc |-> "LinAlgError", inv |-> <<>>]
    ELSE [exc |-> "",
          inv |-> Mat(QOf(M[2][2]), QNeg(QOf(M[1][2])),
                      QNeg(QOf(M[2][1])), QOf(M[1][1]))]

\* np.matrix(M).I of a 2x2 matrix: LinAlgError when M is singular
matrix_I(M) ==
    IF CDet(M) = QZero THEN [exc |-> "LinAlgError", inv |-> <<>>]
    ELSE [exc |-> "",
          inv |-> Mat(QDiv(QOf(M[2][2]), CDet(M)), QDiv(QNeg(QOf(M[1][2])), CDet(M)),
                      QDiv(QNeg(QOf(M[2][1])), CDet(M)), QDiv(QOf(M[1][1]), CDet(M)))]

\* Z._get_inverse: [exc, index, ret]; the first matrix that cannot be
\* inverted raises MTpyError_Z('The {idx_f + 1}ith impedance tensor cannot be
\* inverted'); without a tensor the call stops at logger.war
_get_inverse(s) ==
    LET n == len(s.z)
        bad == IF ~IsNx2x2(s.z) THEN 1..n
               ELSE {i \in 1..n : matrix_I(s.z.data[i]).exc # ""}
    IN  IF s.z = None THEN [exc |-> "AttributeError", index |-> 0, ret |-> NoRet]
        ELSE IF bad # {}
        THEN [exc |-> "MTpyError_Z",
              index |-> CHOOSE i \in bad : \A j \in bad : i <= j,
              ret |-> NoRet]
        ELSE [exc |-> "", index |-> 0,
              ret |-> [op |-> "inverse",
                       inverse |-> ndarray(s.z.shape, s.z.dtype,
                           [i \in 1..n |-> matrix_I(s.z.data[i]).inv])]]

\* the sign of an integer
Sgn(x) == IF x > 0 THEN 1 ELSE IF x < 0 THEN -1 ELSE 0

\* np.sign(zelem) * mean1d.  np.sign of a complex number is the sign of its
\* real part (of its imaginary part when the real part is 0) in numpy 1 and
\* zelem / abs(zelem) in numpy 2, which is irrational off the axes
sign_times(zelem, mean1d, numpy_major) ==
    IF numpy_major = 1
    THEN QMul(<<IF zelem[1] # 0 THEN Sgn(zelem[1]) ELSE Sgn(zelem[2]), 0, 1>>, mean1d)
    ELSE IF mean1d = QZero \/ zelem = <<0, 0>> THEN QZero
    ELSE IF zelem[2] = 0 THEN QMul(<<Sgn(zelem[1]), 0, 1>>, mean1d)
    ELSE IF zelem[1] = 0 THEN QMul(<<0, Sgn(zelem[2]), 1>>, mean1d)
    ELSE <<"mul", "z/abs(z)", zelem, mean1d>>

\* mean1d = 0.5 * (z1d[ii, 1, 0] + z1d[ii, 0, 1])
mean1d_of(M) == QDiv(QOf(CAdd(M[2][1], M[1][2])), <<2, 0, 1>>)

\* Z._get_only1d: [exc, ret]
_get_only1d(s, numpy_major) ==
    LET n == len(s.z)
        one(M) == Mat(QZero, sign_times(M[1][2], mean1d_of(M), numpy_major),
                      sign_times(M[2][1], mean1d_of(M), numpy_major), QZero)
    IN  IF s.z = None THEN [exc |-> "TypeError", ret |-> NoRet]
        ELSE IF n > 0 /\ ~IsNx2x2(s.z) THEN [exc |-> "IndexError", ret |-> NoRet]
        ELSE [exc |-> "",
              ret |-> [op |-> "only1d",
                       z1d |-> ndarray(s.z.shape, s.z.dtype,
                                   [i \in 1..n |-> one(s.z.data[i])])]]

(***************************************************************************)
(* Z.trace, Z.skew, Z.det, Z.norm, Z.invariants                            *)
(***************************************************************************)
\* what stops a getter before it computes its values: 'for ii in self.z'
\* without a tensor, and the exception bad_elem that the expression raises on
\* an element that is not a 2x2 matrix
getter_exc(s, bad_elem) ==
    IF s.z = None THEN "TypeError"
    ELSE IF len(s.z) > 0 /\ ~IsNx2x2(s.z) THEN bad_elem
    ELSE ""

\* err[:] = f(self.z_err[:, ...]) into an array of len(z) elements: numpy
\* broadcasts one tensor error over every frequency and refuses any other
\* length that is not len(z)
broadcasts(s) == len(s.z_err) = len(s.z) \/ len(s.z_err) = 1

\* self.z_err[:, 0, 1] + self.z_err[:, 1, 0] at one frequency
skew_err_of(E) == sum_terms(<<E[1][2], E[2][1]>>)

\* self.z_err[:, 0, 0] + self.z_err[:, 1, 1] at one frequency
trace_err_of(E) == sum_terms(<<E[1][1], E[2][2]>>)

\* the block of tensor_err that lands on element i of the error array of a
\* getter: a single tensor error is broadcast
err_at(s, i) == s.z_err.data[IF len(s.z_err) = 1 THEN 1 ELSE i]

\* Z._get_trace: [exc, ret], ret the pair (tr, tr_err)
_get_trace(s) ==
    LET e == getter_exc(s, "ValueError")
    IN  IF e # "" THEN [exc |-> e, ret |-> NoRet]
        ELSE IF s.z_err # None /\ ~broadcasts(s) THEN [exc |-> "ValueError", ret |-> NoRet]
        ELSE [exc |-> "",
              ret |-> [op |-> "trace",
                       tr |-> ndarray(<<len(s.z)>>, s.z.dtype,
                                [i \in 1..len(s.z) |->
                                    CAdd(s.z.data[i][1][1], s.z.data[i][2][2])]),
                       tr_err |-> IF s.z_err = None THEN None
                                  ELSE ndarray(<<len(s.z)>>, s.z.dtype,
                                         [i \in 1..len(s.z) |->
                                             trace_err_of(err_at(s, i))])]]

\* Z._get_skew: [exc, ret], ret the pair (skew, skewerr)
_get_skew(s) ==
    LET e == getter_exc(s, "IndexError")
    IN  IF e # "" THEN [exc |-> e, ret |-> NoRet]
        ELSE IF s.z_err # None /\ ~broadcasts(s) THEN [exc |-> "ValueError", ret |-> NoRet]
        ELSE [exc |-> "",
              ret |-> [op |-> "skew",
                       skew |-> ndarray(<<len(s.z)>>, s.z.dtype,
                                [i \in 1..len(s.z) |->
                                    CAdd(s.z.data[i][1][2], CScale(-1, s.z.data[i][2][1]))]),
                       skewerr |-> IF s.z_err = None THEN None
                                   ELSE ndarray(<<len(s.z)>>, s.z.dtype,
                                          [i \in 1..len(s.z) |->
                                              skew_err_of(err_at(s, i))])]]

\* the sum of |z11 e00|, |z00 e11|, |z01 e10| and |z10 e01| at one frequency
det_err_of(M, E) ==
    sum_terms(<<abs_err_times_z(E[1][1], M[2][2]),
                abs_err_times_z(E[2][2], M[1][1]),
                abs_err_times_z(E[2][1], M[1][2]),
                abs_err_times_z(E[1][2], M[2][1])>>)

\* Z._get_det: [exc, ret], ret the pair (det_Z, det_Z_err); the error is the
\* sum of |z11 e00|, |z00 e11|, |z01 e10| and |z10 e01|, kept as a term
_get_det(s) ==
    LET e == getter_exc(s, "LinAlgError")
    IN  IF e # "" THEN [exc |-> e, ret |-> NoRet]
        ELSE IF s.z_err # None /\ ~broadcasts(s) THEN [exc |-> "ValueError", ret |-> NoRet]
        ELSE [exc |-> "",
              ret |-> [op |-> "det",
                       det_Z |-> ndarray(<<len(s.z)>>, s.z.dtype,
                                [i \in 1..len(s.z) |-> CDet(s.z.data[i])]),
                       det_Z_err |-> IF s.z_err = None THEN None
                                     ELSE ndarray(<<len(s.z)>>, s.z.dtype,
                                            [i \in 1..len(s.z) |->
                                                det_err_of(s.z.data[i], err_at(s, i))])]]

\* the square of the Frobenius norm of a matrix
Norm2Of(M) == Norm2(M[1][1]) + Norm2(M[1][2]) + Norm2(M[2][1]) + Norm2(M[2][2])

\* Z._get_norm: [exc, ret], ret the pair (znorm, znormerr); the norm and its
\* error are kept as terms of the square of the norm
_get_norm(s) ==
    LET e == getter_exc(s, "")
        n == len(s.z)
    IN  IF e # "" THEN [exc |-> e, ret |-> NoRet]
        ELSE IF s.z_err # None /\ n > 0 /\ ~IsNx2x2(s.z) THEN [exc |-> "IndexError", ret |-> NoRet]
        ELSE IF s.z_err # None /\ len(s.z_err) < n THEN [exc |-> "IndexError", ret |-> NoRet]
        ELSE [exc |-> "",
              ret |-> [op |-> "norm",
                       znorm |-> ndarray(<<n>>, "float",
                                [i \in 1..n |->
                                    IF IsNx2x2(s.z) THEN <<"sqrt", Norm2Of(s.z.data[i])>>
                                    ELSE <<"abs">>]),
                       znormerr |-> IF s.z_err = None THEN None
                                    ELSE ndarray(<<n>>, "float",
                                           [i \in 1..n |->
                                              <<"norm_err", s.z.data[i], s.z_err.data[i]>>])]]

\* z1 + sqrt(z1 * z1 - det) and z1 - sqrt(z1 * z1 - det): z1 itself when the
\* radicand is zero, a term otherwise
lambda_of(pm, z1, det) ==
    IF QAdd(QMul(z1, z1), QNeg(det)) = QZero THEN z1
    ELSE <<"lambda", pm, z1, det>>

\* (self.z[:, 0, 1] - self.z[:, 1, 0]) / 2. at one frequency
z1_of(M) == QDiv(QOf(CAdd(M[1][2], CScale(-1, M[2][1]))), <<2, 0, 1>>)

\* Z._get_invariants: [exc, ret], ret the dictionary; reading self.det,
\* self.trace, self.skew and self.norm runs these getters with their errors
_get_invariants(s) ==
    LET n == len(s.z)
        first(rs) == IF \E k \in 1..Len(rs) : rs[k].exc # ""
                     THEN rs[CHOOSE k \in 1..Len(rs) :
                              rs[k].exc # "" /\ \A j \in 1..(k - 1) : rs[j].exc = ""].exc
                     ELSE ""
        raised == first(<<_get_det(s), _get_trace(s), _get_skew(s), _get_norm(s)>>)
        col(f(_)) == ndarray(<<n>>, "complex", [i \in 1..n |-> f(s.z.data[i])])
        re(M) == [r \in 1..2 |-> [c \in 1..2 |-> M[r][c][1]]]
        im(M) == [r \in 1..2 |-> [c \in 1..2 |-> M[r][c][2]]]
    IN  IF s.z = None THEN [exc |-> "TypeError", ret |-> NoRet]
        ELSE IF n > 0 /\ ~IsNx2x2(s.z) THEN [exc |-> "IndexError", ret |-> NoRet]
        ELSE IF raised # "" THEN [exc |-> raised, ret |-> NoRet]
        ELSE [exc |-> "",
              ret |-> [op |-> "invariants",
                       z1 |-> col(z1_of),
                       det |-> _get_det(s).ret.det_Z,
                       det_real |-> col(LAMBDA M : Det2(re(M))),
                       det_imag |-> col(LAMBDA M : Det2(im(M))),
                       trace |-> _get_trace(s).ret.tr,
                       skew |-> _get_skew(s).ret.skew,
                       norm |-> _get_norm(s).ret.znorm,
                       lambda_plus |-> col(LAMBDA M : lambda_of("+", z1_of(M), CDet(M))),
                       lambda_minus |-> col(LAMBDA M : lambda_of("-", z1_of(M), CDet(M))),
                       sigma_plus |-> col(LAMBDA M : <<"sigma", "+", Norm2Of(M), CDet(M)>>),
                       sigma_minus |-> col(LAMBDA M : <<"sigma", "-", Norm2Of(M), CDet(M)>>)]]

(***************************************************************************)
(* Z.resistivity, Z.phase and their errors, Z.only2d                       *)
(***************************************************************************)
\* Z._get_resistivity: the held array itself
_get_resistivity(s) ==
    [exc |-> "", ret |-> [op |-> "resistivity", value |-> s.resistivity]]

\* Z._get_resistivity_err
_get_resistivity_err(s) ==
    [exc |-> "", ret |-> [op |-> "resistivity_err", value |-> s.resistivity_err]]

\* Z._get_phase
_get_phase(s) ==
    [exc |-> "", ret |-> [op |-> "phase", value |-> s.phase]]

\* Z._get_phase_err
_get_phase_err(s) ==
    [exc |-> "", ret |-> [op |-> "phase_err", value |-> s.phase_err]]

\* z2d = self.z: the name z2d bound to the held array, which every write to
\* z2d then changes
copy_none(a) == [array |-> a, shares |-> TRUE]

\* z2d = copy.copy(self.z): a new array with the elements of a; shares tells
\* whether a write to the result is a write to a
copy_copy(a) == [array |-> a, shares |-> FALSE]

\* Z._get_only2d: [exc, ret, z], z the held tensor after the call; the loop
\* writes 0 to z2d[ii, 0, 0] and z2d[ii, 1, 1]
_get_only2d(s) ==
    LET z2d == copy_copy(s.z)
        n == len(s.z)
        written == ndarray(s.z.shape, s.z.dtype,
                       [i \in 1..n |-> Mat(<<0, 0>>, s.z.data[i][1][2],
                                           s.z.data[i][2][1], <<0, 0>>)])
    IN  IF s.z = None THEN [exc |-> "TypeError", ret |-> NoRet, z |-> s.z]
        ELSE IF n > 0 /\ ~IsNx2x2(s.z)
        THEN [exc |-> "IndexError", ret |-> NoRet, z |-> s.z]
        ELSE [exc |-> "", ret |-> [op |-> "only2d", z2d |-> written],
              z |-> IF z2d.shares THEN written ELSE s.z]

(***************************************************************************)
(* Tipper.  A tipper array of shape Nx1x2 holds at data[i] the pair        *)
(* <<Tx, Ty>> of frequency i, a tipper_err array the pair of their errors. *)
(* A square root is kept as the term <<"sqrt", n>> of its radicand and an  *)
(* angle in degrees as the term <<"atan2", y, x>> of its direction, reduced *)
(* to lowest terms; the sign of a zero is not kept.  An instance is a      *)
(* record of its attributes and of                                         *)
(*   exc          the exception its last call raised,                      *)
(*   input_array  the array object that was given to the constructor, as   *)
(*                it is now: a second instance constructed from the same   *)
(*                object holds it as its tipper,                           *)
(*   holds_input  whether the attribute tipper is that object.             *)
(***************************************************************************)
IsNx1x2(a) == ndim(a) = 3 /\ a.shape[2] = 1 /\ a.shape[3] = 2

\* np.rad2deg(np.arctan2(y, x)), math.degrees(cmath.phase(x + yj))
atan2deg(y, x) ==
    LET g == Gcd(AbsI(y), AbsI(x))
    IN  IF g = 0 THEN <<"atan2", 0, 0>> ELSE <<"atan2", y \div g, x \div g>>

\* np.sqrt(a ** 2 + b ** 2), np.abs(a + bj)
hypot(a, b) == <<"sqrt", a * a + b * b>>

\* cmath.rect(r, math.radians(phi)) of an amplitude and a phase term
rect(r, phi) ==
    LET y == phi[2]
        x == phi[3]
        d == x * x + y * y
    IN  IF d = 0 THEN <<sqrt(r[2]), 0>>
        ELSE LET k == sqrt(r[2] \div d) IN <<k * x, k * y>>

\* MTcc.propagate_error_rect2polar(x, x_error, y, y_error): the pair
\* (r_error, phi_error)
propagate_error_rect2polar(x, x_error, y, y_error) ==
    <<<<"r_error", x, x_error, y, y_error>>, <<"phi_error", x, x_error, y, y_error>>>>

\* MTcc.rotatevector_incl_errors(invector, angle, invector_err): R(angle) v;
\* at a multiple of 90 degrees every rotated element is plus or minus one
\* source element and carries that element's error; without invector_err the
\* error returned is None
rotatevector_incl_errors(v, angle, verr, hasErr) ==
    LET c == CosOf(angle % 360)
        sn == SinOf(angle % 360)
    IN  [rot |-> <<CAdd(CScale(c, v[1]), CScale(-sn, v[2])),
                   CAdd(CScale(sn, v[1]), CScale(c, v[2]))>>,
         err |-> IF ~hasErr THEN None
                 ELSE IF sn = 0 THEN verr
                 ELSE <<verr[2], verr[1]>>]

\* Tipper._compute_mag_direction
_compute_mag_direction(t) ==
    LET n == len(t.tipper)
        k == len(t.tipper_err)
        T == t.tipper.data
        E == t.tipper_err.data
        vec(f) == ndarray(<<n>>, "float", [i \in 1..n |-> f[i]])
    IN  IF t.tipper = None THEN t
        ELSE IF ~IsNx1x2(t.tipper) THEN [t EXCEPT !.exc = "IndexError"]
        ELSE [t EXCEPT
                !.mag_real = vec([i \in 1..n |-> hypot(T[i][1][1], T[i][2][1])]),
                !.mag_imag = vec([i \in 1..n |-> hypot(T[i][1][2], T[i][2][2])]),
                !.angle_real = vec([i \in 1..n |-> atan2deg(-T[i][2][1], -T[i][1][1])]),
                !.angle_imag = vec([i \in 1..n |-> atan2deg(-T[i][2][2], -T[i][1][2])]),
                !.mag_err = IF t.tipper_err = None THEN None
                            ELSE ndarray(<<k>>, "float",
                                   [i \in 1..k |-> <<"hypot", E[i][1], E[i][2]>>]),
                !.angle_err = IF t.tipper_err = None THEN None
                              ELSE ndarray(<<k>>, "float",
                                     [i \in 1..k |-> <<"atan2 % 45", E[i][1], E[i][2]>>])]

\* the amplitude and the phase of one tipper element
amp_of(c) == hypot(c[1], c[2])

phase_of(c) == atan2deg(c[2], c[1])

\* Tipper._compute_amp_phase: the arrays are created filled with zeros and
\* written element by element, so a read of tipper or tipper_err that raises
\* IndexError leaves them partly written
_compute_amp_phase(t) ==
    LET n == len(t.tipper)
        k == len(t.tipper_err)
        hasErr == t.tipper_err # None
        T == t.tipper.data
        E == t.tipper_err.data
        ok == IsNx1x2(t.tipper)
        stop == IF ~ok THEN 1 ELSE IF hasErr /\ k < n THEN k + 1 ELSE 0
        done(i, j) == stop = 0 \/ i < stop \/ (i = stop /\ j = 1)
        arr(f, zero) == ndarray(t.tipper.shape, "float",
                          IF ~ok THEN <<>>
                          ELSE [i \in 1..n |-> [j \in 1..2 |->
                                   IF done(i, j) THEN f[i][j] ELSE zero]])
        errs(m) == IF ~hasErr THEN None
                   ELSE ndarray(t.tipper_err.shape, "float",
                          [i \in 1..k |-> [j \in 1..2 |->
                              IF ok /\ i <= n
                              THEN propagate_error_rect2polar(
                                       T[i][j][1], E[i][j], T[i][j][2], E[i][j])[m]
                              ELSE ZeroErr]])
    IN  IF t.tipper = None THEN t
        ELSE [t EXCEPT
                !.amplitude = arr([i \in 1..n |-> [j \in 1..2 |-> amp_of(T[i][j])]],
                                  <<"sqrt", 0>>),
                !.phase = arr([i \in 1..n |-> [j \in 1..2 |-> phase_of(T[i][j])]],
                              <<"atan2", 0, 0>>),
                !.amplitude_err = errs(1),
                !.phase_err = errs(2),
                !.exc = IF stop # 0 THEN "IndexError" ELSE t.exc]

\* Tipper.__init__(tipper_array, tipper_err_array, freq): the arguments are
\* stored as they are and every derived attribute is None
Tipper__init__(tipper_array, tipper_err_array, freq_arg) ==
    [tipper |-> tipper_array,
     tipper_err |-> tipper_err_array,
     freq |-> freq_arg,
     rotation_angle |-> IF tipper_array # None
                        THEN repeat(0, len(tipper_array)) ELSE Float0,
     amplitude |-> None, amplitude_err |-> None,
     phase |-> None, phase_err |-> None,
     mag_real |-> None, mag_imag |-> None,
     angle_real |-> None, angle_imag |-> None,
     mag_err |-> None, angle_err |-> None,
     exc |-> "",
     input_array |-> tipper_array,
     holds_input |-> tipper_array # None]

\* Tipper._set_freq(lo_freq), the setter of Tipper.freq
Tipper_set_freq(t, lo_freq) ==
    LET t0 == [t EXCEPT !.exc = ""]
    IN  IF t.tipper = None THEN [t0 EXCEPT !.exc = "TypeError"]
        ELSE IF len(lo_freq) # len(t.tipper) THEN t0
        ELSE _compute_amp_phase([t0 EXCEPT !.freq = lo_freq])

\* Tipper._set_tipper(tipper_array), the setter of Tipper.tipper; the test
\* 'self.rotation_angle is float' is false for every rotation_angle
_set_tipper(t, tipper_array) ==
    LET t0 == [t EXCEPT !.exc = ""]
        valid == IsNx1x2(tipper_array) /\ IsNumeric(tipper_array)
        t1 == IF valid
              THEN [t0 EXCEPT !.tipper = tipper_array, !.holds_input = FALSE]
              ELSE t0
        t2 == [t1 EXCEPT !.tipper = tipper_array, !.holds_input = FALSE]
        t3 == _compute_mag_direction(t2)
    IN  IF tipper_array = None THEN [t0 EXCEPT !.exc = "AttributeError"]
        ELSE IF t1.tipper # None /\ t1.tipper.shape # tipper_array.shape THEN t1
        ELSE IF t3.exc # "" THEN t3
        ELSE _compute_amp_phase(t3)

\* Tipper._set_tipper_err(tipper_err_array), the setter of Tipper.tipper_err
_set_tipper_err(t, tipper_err_array) ==
    LET t0 == [t EXCEPT !.exc = ""]
        valid == IsNx1x2(tipper_err_array)
                    /\ tipper_err_array.dtype \in {"float", "int"}
        t1 == IF valid THEN [t0 EXCEPT !.tipper_err = tipper_err_array] ELSE t0
        t2 == IF t1.tipper # None /\ t1.tipper_err # None
                   /\ len(t1.tipper) # len(t1.tipper_err)
              THEN [t1 EXCEPT !.tipper_err = None]
              ELSE t1
        t3 == _compute_mag_direction([t2 EXCEPT !.tipper_err = tipper_err_array])
    IN  IF tipper_err_array = None THEN [t0 EXCEPT !.exc = "AttributeError"]
        ELSE IF t2.tipper_err # None /\ t2.tipper_err.shape # tipper_err_array.shape
        THEN t2
        ELSE IF t3.exc # "" THEN t3
        ELSE _compute_amp_phase(t3)

\* Tipper.set_amp_phase(r_array, phi_array); an r or phi with a non-zero
\* imaginary part is logged with logging.error and the call returns
set_amp_phase(t, r_array, phi_array) ==
    LET t0 == [t EXCEPT !.exc = ""]
        tipper_new == ndarray(r_array.shape,
                        IF t.tipper # None THEN t.tipper.dtype ELSE "complex",
                        [i \in 1..len(r_array) |-> [j \in 1..2 |->
                            rect(r_array.data[i][j], phi_array.data[i][j])]])
        t1 == _set_tipper(t0, tipper_new)
    IN  IF t.tipper # None /\ (t.tipper.shape # r_array.shape
                                \/ t.tipper.shape # phi_array.shape)
        THEN t0
        ELSE IF t.tipper = None /\ r_array.shape # phi_array.shape THEN t0
        ELSE IF HasImag(r_array) \/ HasImag(phi_array) THEN t0
        ELSE IF t1.exc # "" THEN t1
        ELSE _compute_amp_phase(t1)

\* np.sqrt(mag ** 2 * np.arctan(ang) ** 2 / (1 - np.arctan(ang) ** 2)) and
\* np.sqrt(mag ** 2 / (1 - np.arctan(ang) ** 2)) at ang = 0, where
\* np.arctan(ang) is 0
from_mag_ang(mag, ang) == CASE ang = 0 -> <<0, AbsI(mag)>>

\* Tipper.set_mag_direction(mag_real, ang_real, mag_imag, ang_imag): the
\* real and imaginary parts are assigned into the held array, then only
\* _compute_mag_direction is called
set_mag_direction(t, mag_real, ang_real, mag_imag, ang_imag) ==
    LET t0 == [t EXCEPT !.exc = ""]
        re == from_mag_ang(mag_real, ang_real)
        im == from_mag_ang(mag_imag, ang_imag)
        new == ndarray(t.tipper.shape, t.tipper.dtype,
                  [i \in 1..len(t.tipper) |-> <<<<re[1], im[1]>>, <<re[2], im[2]>>>>])
    IN  IF t.tipper = None THEN [t0 EXCEPT !.exc = "TypeError"]
        ELSE IF ~IsNx1x2(t.tipper) THEN [t0 EXCEPT !.exc = "IndexError"]
        ELSE _compute_mag_direction(
                 [t0 EXCEPT !.tipper = new,
                            !.input_array = IF t.holds_input THEN new
                                            ELSE t.input_array])

\* Tipper.rotate(alpha); a call with a number of angles that is not the
\* number of frequencies ends with self.rotation_angle = 0.
Tipper_rotate(t, alpha) ==
    LET t0 == [t EXCEPT !.exc = ""]
        n == len(t.tipper)
        lo_angles == IF ndim(alpha) = 0 \/ len(alpha) = 1
                     THEN [ii \in 1..n |-> alpha.data[1] % 360]
                     ELSE [ii \in 1..len(alpha) |-> alpha.data[ii] % 360]
        nrot == len(t.rotation_angle)
        advanced == ndarray(<<nrot>>, "float",
                       [ii \in 1..nrot |->
                          accumulate_angle(t.rotation_angle.data[ii], lo_angles[ii])])
        t1 == [t0 EXCEPT !.rotation_angle = advanced]
        hasErr == t.tipper_err # None
        rv(i) == rotatevector_incl_errors(t.tipper.data[i], lo_angles[i],
                     IF hasErr THEN t.tipper_err.data[i] ELSE <<>>, hasErr)
        tipper_rot == ndarray(t.tipper.shape, t.tipper.dtype,
                         [i \in 1..n |-> rv(i).rot])
        tipper_err_rot == IF hasErr
                          THEN ndarray(t.tipper_err.shape, t.tipper_err.dtype,
                                 [i \in 1..len(t.tipper_err) |->
                                    IF i <= n THEN rv(i).err ELSE t.tipper_err.data[i]])
                          ELSE IF n > 0 THEN rv(1).err
                          ELSE None
        t2 == _set_tipper(t1, tipper_rot)
        t3 == _set_tipper_err(t2, tipper_err_rot)
        t4 == _compute_mag_direction(t3)
    IN  IF t.tipper = None THEN t0
        ELSE IF isfloat(t.rotation_angle) THEN [t0 EXCEPT !.exc = "TypeError"]
        ELSE IF Len(lo_angles) < nrot THEN [t0 EXCEPT !.exc = "IndexError"]
        ELSE IF Len(lo_angles) # n
        THEN [t1 EXCEPT !.rotation_angle = Float0]
        ELSE IF n > 0 /\ (~IsNx1x2(t.tipper) \/ (hasErr /\ len(t.tipper_err) < n))
        THEN [t1 EXCEPT !.exc = "IndexError"]
        ELSE IF t2.exc # "" THEN t2
        ELSE IF t3.exc # "" THEN t3
        ELSE IF t4.exc # "" THEN t4
        ELSE _compute_amp_phase(t4)

(***************************************************************************)
(* Inputs                                                                  *)
(***************************************************************************)
Lens == {1, 2}

\* the tensor of the class docstring: [[0, 1+1j], [-1-1j, 0]]
MatA == Mat(<<0, 0>>, <<1, 1>>, <<-1, -1>>, <<0, 0>>)

\* a tensor with four non-zero elements: [[2, 1+1j], [-2j, -1+1j]]
MatB == Mat(<<2, 0>>, <<1, 1>>, <<0, -2>>, <<-1, 1>>)

ErrE == Mat(Std(1), Std(2), Std(3), Std(4))

SeqsOver(S) == UNION {[1..n -> S] : n \in Lens}

\* Nx2x2 complex arrays
TensorPool == {ndarray(<<Len(d), 2, 2>>, "complex", d) : d \in SeqsOver({MatA, MatB})}

\* a singular matrix: [[1, 1], [1, 1]]
MatS == Mat(<<1, 0>>, <<1, 0>>, <<1, 0>>, <<1, 0>>)

\* a tensor of three frequencies and a tensor whose second matrix is singular
TensorPoolFull ==
    TensorPool \cup {ndarray(<<Len(d), 2, 2>>, "complex", d) :
                        d \in {<<MatA, MatB, MatA>>, <<MatB, MatS>>}}

\* a single 2x2 matrix
Mat2x2Pool == {ndarray(<<2, 2>>, "complex", <<m>>) : m \in {MatA, MatB}}

\* arrays that are not valid tensors: a 1-D array and an Nx2x2 array of strings
Bad1D == ndarray(<<2>>, "complex", <<>>)

BadStr == ndarray(<<1, 2, 2>>, "str", <<>>)

ErrPool == {ndarray(<<n, 2, 2>>, "float", [i \in 1..n |-> ErrE]) : n \in Lens}

Err2x2 == ndarray(<<2, 2>>, "float", <<ErrE>>)

FreqPool == {ndarray(<<Len(d)>>, "float", d) : d \in {<<1>>, <<4>>, <<1, 4>>}}

FreqScalar == ndarray(<<>>, "float", <<4>>)

\* resistivity and phase arrays of a tensor at frequency 1 Hz
ResArr(t) == ndarray(t.shape, "float",
                [i \in 1..len(t) |-> [r \in 1..2 |-> [c \in 1..2 |->
                    ResOf(t.data[i][r][c], 1)]]])

PhaseArr(t) == ndarray(t.shape, "float",
                [i \in 1..len(t) |-> [r \in 1..2 |-> [c \in 1..2 |->
                    PhaseDeg(t.data[i][r][c])]]])

ResPhaseSrc == {ndarray(<<Len(d), 2, 2>>, "complex", d) :
                    d \in {<<MatA>>, <<MatB>>, <<MatB, MatA>>}}

ComplexArr == ndarray(<<1, 2, 2>>, "complex", <<>>)

\* (res, phase, reserr, phaseerr): the polar form of a tensor with or without
\* errors, a phase array of another shape, a res array that is not real
ResPhaseArgs ==
    {<<ResArr(t), PhaseArr(t), e, e>> :
         t \in ResPhaseSrc, e \in {None, ndarray(<<1, 2, 2>>, "float", <<ErrE>>)}}
    \cup {<<ResArr(ndarray(<<1, 2, 2>>, "complex", <<MatB>>)),
            PhaseArr(ndarray(<<2, 2, 2>>, "complex", <<MatB, MatA>>)), None, None>>,
          <<ComplexArr, PhaseArr(ndarray(<<1, 2, 2>>, "complex", <<MatB>>)), None, None>>,
          <<ResArr(ndarray(<<1, 2, 2>>, "complex", <<MatB>>)),
            PhaseArr(ndarray(<<1, 2, 2>>, "complex", <<MatB>>)),
            ndarray(<<1, 2, 2>>, "float", <<ErrE>>),
            ndarray(<<2, 2, 2>>, "float", <<ErrE, ErrE>>)>>}

\* static shift factors: a number, a sequence of one factor and a sequence of
\* one factor for each of two frequencies
SSArgs == {<<ndarray(<<>>, "float", <<4>>), ndarray(<<>>, "float", <<1>>)>>,
           <<ndarray(<<>>, "float", <<1>>), ndarray(<<1>>, "float", <<4>>)>>,
           <<ndarray(<<2>>, "float", <<4, 1>>), ndarray(<<>>, "float", <<1>>)>>,
           <<ndarray(<<>>, "float", <<4>>), ndarray(<<2>>, "float", <<1, 4>>)>>}

\* distortion tensors: the identity, [[0, 1], [1, 0]] and the singular
\* [[1, 2], [2, 4]]
DistortionPool ==
    {ndarray(<<2, 2>>, "float", <<m>>) :
        m \in {Mat(1, 0, 0, 1), Mat(0, 1, 1, 0), Mat(1, 2, 2, 4)}}

ScalarAngles == {ndarray(<<>>, "float", <<a>>) : a \in {0, 90, 180, 270, 360}}

ArrayAngles == {ndarray(<<Len(d)>>, "float", d) : d \in {<<90>>, <<90, 270>>}}

\* tipper vectors: Tx = 1, Ty = 2, and Tx = 1j, Ty = -1 + 1j
VecA == <<<<1, 0>>, <<2, 0>>>>

VecB == <<<<0, 1>>, <<-1, 1>>>>

TipperPool == {ndarray(<<Len(d), 1, 2>>, "complex", d) : d \in SeqsOver({VecA, VecB})}

TipperErrPool ==
    {ndarray(<<n, 1, 2>>, "float", [i \in 1..n |-> <<Std(1), Std(2)>>]) : n \in Lens}

\* a 1-D array given in place of a tipper array
TipperBad1D == ndarray(<<2>>, "complex", <<>>)

\* the amplitudes and the phases of a tipper array
AmpArr(t) == ndarray(t.shape, "float",
                [i \in 1..len(t) |-> [j \in 1..2 |-> amp_of(t.data[i][j])]])

PhiArr(t) == ndarray(t.shape, "float",
                [i \in 1..len(t) |-> [j \in 1..2 |-> phase_of(t.data[i][j])]])

\* an r or phi array with a non-zero imaginary part
ComplexVec == ndarray(<<1, 1, 2>>, "complex", <<>>)

AmpPhaseSrc == {ndarray(<<Len(d), 1, 2>>, "complex", d) :
                    d \in {<<VecA>>, <<VecB>>, <<VecB, VecA>>}}

AmpPhaseArgs ==
    {<<AmpArr(t), PhiArr(t)>> : t \in AmpPhaseSrc}
    \cup {<<ComplexVec, PhiArr(ndarray(<<1, 1, 2>>, "complex", <<VecA>>))>>,
          <<AmpArr(ndarray(<<1, 1, 2>>, "complex", <<VecA>>)), ComplexVec>>}

\* magnitudes and angles of the real and the imaginary induction arrow
MagDirectionArgs == {<<2, 0, 0, 0>>, <<1, 0, 1, 0>>}

(***************************************************************************)
(* The state machine: one Z instance and the calls made on it              *)
(***************************************************************************)
Self == [z |-> z, z_err |-> z_err, freq |-> freq,
         rotation_angle |-> rotation_angle,
         resistivity |-> resistivity, resistivity_err |-> resistivity_err,
         phase |-> phase, phase_err |-> phase_err, exc |-> exc]

\* the specifications of Z alone hold a Tipper without arrays and leave it
NoTipper == Tipper__init__(None, None, None)

\* the attributes of Z after a call are those of the record s
Assigns(s) ==
    /\ z' = s.z
    /\ z_err' = s.z_err
    /\ freq' = s.freq
    /\ rotation_angle' = s.rotation_angle
    /\ resistivity' = s.resistivity
    /\ resistivity_err' = s.resistivity_err
    /\ phase' = s.phase
    /\ phase_err' = s.phase_err
    /\ exc' = s.exc

Becomes(s) ==
    /\ Assigns(s)
    /\ UNCHANGED tip

\* the state after Z(z_array, z_err_array, freq); a constructor that raised
\* leaves no instance to call
Construct(za, ea, fa) ==
    LET s == __init__(za, ea, fa)
    IN  /\ z = s.z
        /\ z_err = s.z_err
        /\ freq = s.freq
        /\ rotation_angle = s.rotation_angle
        /\ resistivity = s.resistivity
        /\ resistivity_err = s.resistivity_err
        /\ phase = s.phase
        /\ phase_err = s.phase_err
        /\ exc = s.exc
        /\ call = [op |-> "__init__", args |-> <<za, ea, fa>>]
        /\ exc_index = 0
        /\ ret = NoRet
        /\ nops = 0
        /\ tip = NoTipper

Init ==
    \E za \in {None, Bad1D} \cup Mat2x2Pool \cup TensorPool,
       ea \in {None, Err2x2} \cup ErrPool,
       fa \in {None} \cup FreqPool :
        Construct(za, ea, fa)

Alive == ~(call.op = "__init__" /\ exc # "") /\ nops < MaxOps

SetFreq ==
    /\ Alive
    /\ \E lo_freq \in FreqPool \cup {FreqScalar} :
        /\ Becomes(_set_freq(Self, lo_freq))
        /\ call' = [op |-> "_set_freq", args |-> <<lo_freq>>]
        /\ ret' = NoRet
        /\ exc_index' = 0
    /\ nops' = nops + 1

SetZ ==
    /\ Alive
    /\ \E z_array \in TensorPool \cup Mat2x2Pool \cup {Bad1D, BadStr} :
        /\ Becomes(_set_z(Self, z_array))
        /\ call' = [op |-> "_set_z", args |-> <<z_array>>]
        /\ ret' = NoRet
        /\ exc_index' = 0
    /\ nops' = nops + 1

SetZErr ==
    /\ Alive
    /\ \E z_err_array \in ErrPool :
        /\ Becomes(_set_z_err(Self, z_err_array))
        /\ call' = [op |-> "_set_z_err", args |-> <<z_err_array>>]
        /\ ret' = NoRet
        /\ exc_index' = 0
    /\ nops' = nops + 1

SetResPhase ==
    /\ Alive
    /\ \E a \in ResPhaseArgs :
        /\ Becomes(set_res_phase(Self, a[1], a[2], a[3], a[4]))
        /\ call' = [op |-> "set_res_phase", args |-> a]
        /\ ret' = NoRet
        /\ exc_index' = 0
    /\ nops' = nops + 1

Rotate ==
    /\ Alive
    /\ \E alpha \in ScalarAngles \cup ArrayAngles :
        /\ Becomes(rotate(Self, alpha))
        /\ call' = [op |-> "rotate", args |-> <<alpha>>]
        /\ ret' = NoRet
        /\ exc_index' = 0
    /\ nops' = nops + 1

Next == SetFreq \/ SetZ \/ SetZErr \/ SetResPhase \/ Rotate

Spec == Init /\ [][Next]_vars

(***************************************************************************)
(* The same instance with the operations that return a value, constructed  *)
(* from a wider set of tensors                                             *)
(***************************************************************************)
InitFull ==
    \E za \in {None, Bad1D} \cup Mat2x2Pool \cup TensorPoolFull,
       ea \in {None, Err2x2} \cup ErrPool,
       fa \in {None} \cup FreqPool :
        Construct(za, ea, fa)

\* a call that leaves the instance as it is and returns r.ret or raises r.exc
Returns(r) ==
    /\ UNCHANGED <<z, z_err, freq, rotation_angle,
                   resistivity, resistivity_err, phase, phase_err, tip>>
    /\ exc' = r.exc
    /\ exc_index' = IF "index" \in DOMAIN r THEN r.index ELSE 0
    /\ ret' = r.ret

RemoveSS ==
    /\ Alive
    /\ \E a \in SSArgs :
        /\ Returns(remove_ss(Self, a[1], a[2]))
        /\ call' = [op |-> "remove_ss", args |-> a]
    /\ nops' = nops + 1

RemoveDistortion ==
    /\ Alive
    /\ \E D \in DistortionPool :
        /\ Returns(remove_distortion(Self, D, None))
        /\ call' = [op |-> "remove_distortion", args |-> <<D, None>>]
    /\ nops' = nops + 1

Inverse ==
    /\ Alive
    /\ Returns(_get_inverse(Self))
    /\ call' = [op |-> "inverse", args |-> <<>>]
    /\ nops' = nops + 1

\* the numpy releases the module runs under
NumpyMajor == {1, 2}

Only1d ==
    /\ Alive
    /\ \E numpy_major \in NumpyMajor :
        Returns(_get_only1d(Self, numpy_major))
    /\ call' = [op |-> "only1d", args |-> <<>>]
    /\ nops' = nops + 1

Trace ==
    /\ Alive
    /\ Returns(_get_trace(Self))
    /\ call' = [op |-> "trace", args |-> <<>>]
    /\ nops' = nops + 1

Skew ==
    /\ Alive
    /\ Returns(_get_skew(Self))
    /\ call' = [op |-> "skew", args |-> <<>>]
    /\ nops' = nops + 1

Det ==
    /\ Alive
    /\ Returns(_get_det(Self))
    /\ call' = [op |-> "det", args |-> <<>>]
    /\ nops' = nops + 1

Norm ==
    /\ Alive
    /\ Returns(_get_norm(Self))
    /\ call' = [op |-> "norm", args |-> <<>>]
    /\ nops' = nops + 1

Invariants ==
    /\ Alive
    /\ Returns(_get_invariants(Self))
    /\ call' = [op |-> "invariants", args |-> <<>>]
    /\ nops' = nops + 1

GetResistivity ==
    /\ Alive
    /\ Returns(_get_resistivity(Self))
    /\ call' = [op |-> "resistivity", args |-> <<>>]
    /\ nops' = nops + 1

GetResistivityErr ==
    /\ Alive
    /\ Returns(_get_resistivity_err(Self))
    /\ call' = [op |-> "resistivity_err", args |-> <<>>]
    /\ nops' = nops + 1

GetPhase ==
    /\ Alive
    /\ Returns(_get_phase(Self))
    /\ call' = [op |-> "phase", args |-> <<>>]
    /\ nops' = nops + 1

GetPhaseErr ==
    /\ Alive
    /\ Returns(_get_phase_err(Self))
    /\ call' = [op |-> "phase_err", args |-> <<>>]
    /\ nops' = nops + 1

Only2d ==
    /\ Alive
    /\ LET r == _get_only2d(Self)
       IN  /\ z' = r.z
           /\ exc' = r.exc
           /\ ret' = r.ret
    /\ UNCHANGED <<z_err, freq, rotation_angle,
                   resistivity, resistivity_err, phase, phase_err, tip>>
    /\ exc_index' = 0
    /\ call' = [op |-> "only2d", args |-> <<>>]
    /\ nops' = nops + 1

NextFull ==
    \/ Next
    \/ RemoveSS
    \/ RemoveDistortion
    \/ Inverse
    \/ Only1d
    \/ Trace
    \/ Skew
    \/ Det
    \/ Norm
    \/ Invariants
    \/ GetResistivity
    \/ GetResistivityErr
    \/ GetPhase
    \/ GetPhaseErr
    \/ Only2d

SpecFull == InitFull /\ [][NextFull]_vars

(***************************************************************************)
(* One Tipper instance and the calls made on it; no Z is constructed       *)
(***************************************************************************)
\* the attributes of Z are those of the record s
Holds(s) ==
    /\ z = s.z
    /\ z_err = s.z_err
    /\ freq = s.freq
    /\ rotation_angle = s.rotation_angle
    /\ resistivity = s.resistivity
    /\ resistivity_err = s.resistivity_err
    /\ phase = s.phase
    /\ phase_err = s.phase_err
    /\ exc = s.exc

ZUnchanged ==
    UNCHANGED <<z, z_err, freq, rotation_angle,
                resistivity, resistivity_err, phase, phase_err, exc>>

InitTipper ==
    \E ta \in {None} \cup TipperPool,
       ea \in {None} \cup TipperErrPool,
       fa \in {None} \cup FreqPool :
        /\ tip = Tipper__init__(ta, ea, fa)
        /\ Holds(__init__(None, None, None))
        /\ call = [op |-> "Tipper.__init__", args |-> <<ta, ea, fa>>]
        /\ exc_index = 0
        /\ ret = NoRet
        /\ nops = 0

\* a call on the Tipper that leaves it as the record t
TipperCall(op, args, t) ==
    /\ tip' = t
    /\ call' = [op |-> op, args |-> args]
    /\ ret' = NoRet
    /\ exc_index' = 0
    /\ nops' = nops + 1
    /\ ZUnchanged

TipperSetFreq ==
    /\ nops < MaxOps
    /\ \E lo_freq \in FreqPool :
        TipperCall("Tipper._set_freq", <<lo_freq>>, Tipper_set_freq(tip, lo_freq))

TipperSetTipper ==
    /\ nops < MaxOps
    /\ \E tipper_array \in TipperPool \cup {TipperBad1D, None} :
        TipperCall("Tipper._set_tipper", <<tipper_array>>,
                   _set_tipper(tip, tipper_array))

TipperSetTipperErr ==
    /\ nops < MaxOps
    /\ \E tipper_err_array \in TipperErrPool \cup {None} :
        TipperCall("Tipper._set_tipper_err", <<tipper_err_array>>,
                   _set_tipper_err(tip, tipper_err_array))

TipperSetAmpPhase ==
    /\ nops < MaxOps
    /\ \E a \in AmpPhaseArgs :
        TipperCall("Tipper.set_amp_phase", a, set_amp_phase(tip, a[1], a[2]))

TipperSetMagDirection ==
    /\ nops < MaxOps
    /\ \E a \in MagDirectionArgs :
        TipperCall("Tipper.set_mag_direction", a,
                   set_mag_direction(tip, a[1], a[2], a[3], a[4]))

TipperRotate ==
    /\ nops < MaxOps
    /\ \E alpha \in ScalarAngles \cup ArrayAngles :
        TipperCall("Tipper.rotate", <<alpha>>, Tipper_rotate(tip, alpha))

NextTipper ==
    \/ TipperSetFreq
    \/ TipperSetTipper
    \/ TipperSetTipperErr
    \/ TipperSetAmpPhase
    \/ TipperSetMagDirection
    \/ TipperRotate

SpecTipper == InitTipper /\ [][NextTipper]_vars

(***************************************************************************)
(* A Z and a Tipper of the same number of frequencies, both as constructed, *)
(* and the same rotate calls made on both                                  *)
(***************************************************************************)
InitRotate ==
    \E za \in TensorPool, ta \in TipperPool, fa \in FreqPool, e \in BOOLEAN :
        /\ len(za) = len(ta)
        /\ len(fa) = len(ta)
        /\ Holds(__init__(za, IF e THEN ndarray(za.shape, "float",
                                          [i \in 1..len(za) |-> ErrE])
                              ELSE None, fa))
        /\ tip = Tipper__init__(ta, IF e THEN ndarray(ta.shape, "float",
                                              [i \in 1..len(ta) |-> <<Std(1), Std(2)>>])
                                     ELSE None, fa)
        /\ call = [op |-> "__init__", args |-> <<za, ta, fa>>]
        /\ exc_index = 0
        /\ ret = NoRet
        /\ nops = 0

RotateBoth ==
    /\ nops < MaxOps
    /\ \E alpha \in ScalarAngles \cup ArrayAngles :
        /\ Assigns(rotate(Self, alpha))
        /\ tip' = Tipper_rotate(tip, alpha)
        /\ call' = [op |-> "rotate", args |-> <<alpha>>]
    /\ ret' = NoRet
    /\ exc_index' = 0
    /\ nops' = nops + 1

NextRotate == RotateBoth

SpecRotate == InitRotate /\ [][NextRotate]_vars

(***************************************************************************)
(* Properties                                                              *)
(***************************************************************************)
\* an instance exists: the constructor returned
Constructed == ~(call.op = "__init__" /\ exc # "")

Scalar(a) == ndarray(<<>>, "float", <<a>>)

Idx == {1, 2}

\* p is the argument, in degrees, of the complex number c
IsArgOf(p, c) ==
    IF c = <<0, 0>> THEN p = 0
    ELSE \E k \in 1..MaxAbs : c = CScale(k, DirOf(p))

\* C1: a Z constructed from one 2x2 numeric matrix M and a one-element
\* frequency array [f] holds a 1x2x2 tensor, and for the four components
\* resistivity[0,r,c] = 0.2*|M[r,c]|^2/f (5*f*resistivity = |M[r,c]|^2) and
\* phase[0,r,c] is the argument of M[r,c] in degrees
C1_Construct2x2 ==
    (/\ call.op = "__init__"
     /\ Is2x2(call.args[1]) /\ IsNumeric(call.args[1])
     /\ call.args[3] # None /\ call.args[3].shape = <<1>>)
    => LET M == call.args[1].data[1]
           f == call.args[3].data[1]
       IN  /\ exc = ""
           /\ z.shape = <<1, 2, 2>>
           /\ z.data = <<M>>
           /\ resistivity.shape = <<1, 2, 2>>
           /\ phase.shape = <<1, 2, 2>>
           /\ \A r \in Idx, c \in Idx :
                /\ 5 * f * resistivity.data[1][r][c][1]
                     = Norm2(M[r][c]) * resistivity.data[1][r][c][2]
                /\ IsArgOf(phase.data[1][r][c], M[r][c])

\* the example of the class docstring with f = 1: resistivity 0.4, phase 45
C1_Witness ==
    /\ call.op = "__init__"
    /\ call.args[1] = ndarray(<<2, 2>>, "complex", <<MatA>>)
    /\ call.args[3] = ndarray(<<1>>, "float", <<1>>)
    /\ exc = ""
    /\ resistivity.data[1][1][2] = <<2, 5>>
    /\ phase.data[1][1][2] = 45

\* C2: in every state where tensor and frequencies are both present the
\* derived arrays are fresh: resistivity and phase have the tensor's shape
\* and resistivity[i,r,c] = 0.2*|tensor[i,r,c]|^2/frequencies[i] for every
\* index i and component
C2_DerivedFresh ==
    (Constructed /\ z # None /\ freq # None)
    => /\ resistivity.shape = z.shape
       /\ phase.shape = z.shape
       /\ IsNx2x2(z) =>
            \A i \in 1..len(z) :
               /\ i <= len(freq)
               /\ \A r \in Idx, c \in Idx :
                    /\ resistivity.data[i][r][c] = ResOf(z.data[i][r][c], freq.data[i])
                    /\ phase.data[i][r][c] = PhaseDeg(z.data[i][r][c])

AllNonZero(a) ==
    /\ IsNx2x2(a) /\ IsNumeric(a)
    /\ \A i \in 1..len(a), r \in Idx, c \in Idx : a.data[i][r][c] # <<0, 0>>

\* C3: for every Z with frequencies set and every tensor component
\* non-zero, set_res_phase called with the instance's own resistivity and
\* phase leaves the tensor, the resistivity and the phase as they were
C3_RoundTrip ==
    (Constructed /\ freq # None /\ z # None /\ AllNonZero(z))
    => LET t == set_res_phase(Self, resistivity, phase, None, None)
       IN  /\ t.z = z
           /\ t.resistivity = resistivity
           /\ t.phase = phase

Quarter == {0, 90, 180, 270}

\* C4: rotate(a) followed by rotate(b) leaves the same tensor and the same
\* rotation_angle as the single call rotate((a + b) mod 360) made in the
\* same state, for all angles a, b in [0, 360)
C4_RotateCompose ==
    Constructed =>
      \A a \in Quarter, b \in Quarter :
         LET two == rotate(rotate(Self, Scalar(a)), Scalar(b))
             one == rotate(Self, Scalar((a + b) % 360))
         IN  /\ two.z = one.z
             /\ two.rotation_angle = one.rotation_angle

\* a tensor rotated by 270 and then by 180 degrees: rotation_angle is 90,
\* the angle of the single rotation by (270 + 180) mod 360
C4_Witness ==
    /\ call.op = "rotate"
    /\ call.args[1] = Scalar(180)
    /\ exc = ""
    /\ IsNx2x2(z)
    /\ z.data[1] = rotatematrix_incl_errors(MatB, 90, <<>>, FALSE).rot
    /\ z.data[1] # MatB
    /\ rotation_angle = ndarray(<<1>>, "float", <<90>>)

\* C5: rotate(0) and rotate(360) leave tensor, tensor_err, resistivity and
\* phase unchanged and every entry of rotation_angle unchanged mod 360
C5_RotateIdentity ==
    [][(call'.op = "rotate" /\ call'.args[1] \in {Scalar(0), Scalar(360)} /\ z # None)
       => /\ z' = z
          /\ z_err' = z_err
          /\ resistivity' = resistivity
          /\ phase' = phase
          /\ rotation_angle'.shape = rotation_angle.shape
          /\ \A i \in 1..len(rotation_angle) :
               rotation_angle'.data[i] % 360 = rotation_angle.data[i] % 360]_vars

\* rotate(360) has returned on a rotated tensor that carries errors
C5_Witness ==
    /\ call.op = "rotate"
    /\ call.args[1] = Scalar(360)
    /\ exc = ""
    /\ IsNx2x2(z)
    /\ z_err # None
    /\ resistivity # None
    /\ rotation_angle.data[1] = 90

\* C6: tensor_err is either absent or has exactly the shape of tensor
C6_ErrShape ==
    Constructed => (z_err = None \/ z_err.shape = z.shape)

\* C7: whenever tensor and frequencies are both present they have the same
\* length
C7_SameLength ==
    (Constructed /\ z # None /\ freq # None) => len(z) = len(freq)

\* C8: while a tensor of N entries is held, rotation_angle is a length-N
\* sequence whose entries lie in [0, 360), all zero right after construction
C8_RotationAngleAligned ==
    (Constructed /\ z # None)
    => /\ rotation_angle.shape = <<len(z)>>
       /\ \A i \in 1..len(z) :
            /\ rotation_angle.data[i] \in 0..359
            /\ call.op = "__init__" => rotation_angle.data[i] = 0

\* C9: assigning to Z.tensor an array that is not Nx2x2 or not numeric
\* raises nothing and leaves every field as it was, in every state
C9_BadTensorNoOp ==
    [][(call'.op = "_set_z"
          /\ ~(IsNx2x2(call'.args[1]) /\ IsNumeric(call'.args[1])))
       => /\ exc' = ""
          /\ UNCHANGED <<z, z_err, freq, rotation_angle,
                         resistivity, resistivity_err, phase, phase_err>>]_vars

\* C10: a Z constructed with a tensor argument that is neither 2x2 nor
\* Nx2x2 (or not numeric) holds no tensor and no derived quantity
C10_CtorRejects ==
    (/\ call.op = "__init__"
     /\ call.args[1] # None
     /\ ~((Is2x2(call.args[1]) \/ IsNx2x2(call.args[1])) /\ IsNumeric(call.args[1])))
    => /\ z = None
       /\ resistivity = None /\ resistivity_err = None
       /\ phase = None /\ phase_err = None


\* the fields of the instance are what they were before the step
FieldsUnchanged ==
    UNCHANGED <<z, z_err, freq, rotation_angle,
                resistivity, resistivity_err, phase, phase_err>>

\* C11: a set_res_phase call made while the frequencies are absent or
\* their length differs from the length of res raises the tensor error
\* (MTpyError_Z), a call whose res or phase has a non-zero imaginary part
\* raises MTpyError_inputarguments, and in both cases every field of the
\* instance is unchanged.
C11_DomainViolation ==
    [][call'.op = "set_res_phase" =>
         LET res_array == call'.args[1]
             phase_array == call'.args[2]
             nofreq == freq = None \/ len(freq) # len(res_array)
         IN  /\ nofreq => exc' = "MTpyError_Z" /\ FieldsUnchanged
             /\ (~nofreq /\ (HasImag(res_array) \/ HasImag(phase_array)))
                    => exc' = "MTpyError_inputarguments" /\ FieldsUnchanged]_vars

\* the res and phase arguments pass the shape checks that come first
ShapesPass(res_array, phase_array) ==
    IF z # None THEN z.shape = res_array.shape /\ z.shape = phase_array.shape
    ELSE res_array.shape = phase_array.shape

\* C11 amended: when res and phase pass the shape checks, a set_res_phase
\* call made while the frequencies are absent or their length differs from
\* the length of res raises MTpyError_EDI, a call whose res or phase has a
\* non-zero imaginary part raises MTpyError_inputarguments, and in both
\* cases every field of the instance is unchanged.
C11_DomainViolationAmended ==
    [][call'.op = "set_res_phase" =>
         LET res_array == call'.args[1]
             phase_array == call'.args[2]
             nofreq == freq = None \/ len(freq) # len(res_array)
         IN  ShapesPass(res_array, phase_array) =>
               /\ nofreq => exc' = "MTpyError_EDI" /\ FieldsUnchanged
               /\ (~nofreq /\ (HasImag(res_array) \/ HasImag(phase_array)))
                      => exc' = "MTpyError_inputarguments" /\ FieldsUnchanged]_vars

\* a call on an instance that holds a tensor and derived arrays was refused
\* for its frequencies
C11_Witness ==
    /\ call.op = "set_res_phase"
    /\ exc = "MTpyError_EDI"
    /\ z # None
    /\ resistivity # None


\* the angles of a rotate call are a sequence whose length is neither 1 nor
\* the number of frequencies of the tensor
WrongCount(alpha) ==
    ndim(alpha) = 1 /\ len(alpha) # 1 /\ len(alpha) # len(z)

\* C12: a rotate call whose sequence of angles has more or fewer angles
\* than the tensor has frequencies (and not one angle) raises nothing and
\* leaves tensor, tensor_err, resistivity and phase unchanged.
C12_WrongCountNonFatal ==
    [][(call'.op = "rotate" /\ z # None /\ WrongCount(call'.args[1])) =>
         /\ exc' = ""
         /\ UNCHANGED <<z, z_err, resistivity, phase>>]_vars

FactorFits(f) == ndim(f) = 0 \/ (ndim(f) = 1 /\ len(f) = len(z))

FactorAt(f, i) == IF ndim(f) = 0 THEN f.data[1] ELSE f.data[i]

\* C14: remove_ss takes each factor as a number or as a sequence of one
\* factor per frequency and returns, for every index i, the static shift
\* S[i] = diag(sqrt(fx[i]), sqrt(fy[i])) and the corrected tensor whose row 0
\* is row 0 of tensor[i] divided by sqrt(fx[i]) and whose row 1 is row 1
\* divided by sqrt(fy[i]).
C14_RemoveSS ==
    (call.op = "remove_ss" /\ IsNx2x2(z)
       /\ FactorFits(call.args[1]) /\ FactorFits(call.args[2])) =>
        /\ exc = ""
        /\ ret # NoRet
        /\ \A i \in 1..len(z) :
            LET fx == FactorAt(call.args[1], i)
                fy == FactorAt(call.args[2], i)
            IN  /\ ret.static_shift.data[i] = Mat(sqrt(fx), 0, 0, sqrt(fy))
                /\ \A c \in 1..2 :
                    /\ ret.z_corrected.data[i][1][c]
                         = QDiv(QOf(z.data[i][1][c]), <<sqrt(fx), 0, 1>>)
                    /\ ret.z_corrected.data[i][2][c]
                         = QDiv(QOf(z.data[i][2][c]), <<sqrt(fy), 0, 1>>)

\* C15: when remove_ss returns (S, Z0), the product S[i] Z0[i] is tensor[i]
\* at every index i.
C15_StaticShiftInverse ==
    (call.op = "remove_ss" /\ ret # NoRet) =>
        \A i \in 1..len(z) :
            QMatMul(QReal(ret.static_shift.data[i]), ret.z_corrected.data[i])
                = QMat(z.data[i])

\* remove_ss returned for a tensor of two frequencies, with an x factor of 4
\* and a y factor of 1
C15_Witness ==
    /\ call.op = "remove_ss"
    /\ ret # NoRet
    /\ len(z) = 2
    /\ z.data[2] = MatB
    /\ ret.static_shift.data[2] = Mat(2, 0, 0, 1)
    /\ ret.z_corrected.data[2][1][2] = <<1, 1, 2>>


\* C16: remove_distortion with a singular distortion tensor raises the
\* tensor error (MTpyError_Z), returns nothing and leaves tensor and
\* tensor_err unchanged.
C16_SingularDistortion ==
    [][(call'.op = "remove_distortion" /\ Det2(call'.args[1].data[1]) = 0) =>
         /\ exc' = "MTpyError_Z"
         /\ ret' = NoRet
         /\ UNCHANGED <<z, z_err>>]_vars

\* a singular distortion tensor was given to an instance that holds a tensor
\* and its errors
C16_Witness ==
    /\ call.op = "remove_distortion"
    /\ call.args[1].data[1] = Mat(1, 2, 2, 4)
    /\ IsNx2x2(z)
    /\ z_err # None

\* C17: remove_distortion with the identity as distortion tensor and no
\* distortion error, on an instance that holds tensor and tensor_err,
\* returns the tensor as corrected tensor and tensor_err as corrected error.
C17_IdentityDistortion ==
    (call.op = "remove_distortion" /\ call.args[1].data[1] = Mat(1, 0, 0, 1)
       /\ call.args[2] = None /\ IsNx2x2(z) /\ IsNx2x2(z_err)) =>
        /\ exc = ""
        /\ ret # NoRet
        /\ ret.z_corrected.shape = z.shape
        /\ \A i \in 1..len(z) : ret.z_corrected.data[i] = QMat(z.data[i])
        /\ ret.z_corrected_err.shape = z_err.shape
        /\ ret.z_corrected_err.data = z_err.data


\* the tensor matrices that have no inverse
Singular == {i \in 1..len(z) : CDet(z.data[i]) = QZero}

\* C18: inverse returns, for a tensor whose matrices are all non-singular,
\* the inverse of every tensor[i]; when some tensor[i] is singular it raises
\* the tensor error (MTpyError_Z) whose message names the first failing
\* frequency, and returns nothing.
C18_Inverse ==
    (call.op = "inverse" /\ IsNx2x2(z)) =>
        IF Singular = {}
        THEN /\ exc = ""
             /\ ret # NoRet
             /\ ret.inverse.shape = z.shape
             /\ \A i \in 1..len(z) :
                   /\ QMatMul(ret.inverse.data[i], QMat(z.data[i])) = QIdentity
                   /\ QMatMul(QMat(z.data[i]), ret.inverse.data[i]) = QIdentity
        ELSE /\ exc = "MTpyError_Z"
             /\ ret = NoRet
             /\ exc_index \in Singular
             /\ \A j \in Singular : exc_index <= j

\* inverse was read from a tensor whose second matrix is singular
C18_Witness ==
    /\ call.op = "inverse"
    /\ IsNx2x2(z)
    /\ Singular = {2}
    /\ exc = "MTpyError_Z"
    /\ exc_index = 2


\* C20: only1d returns, for every index, a matrix whose diagonal elements
\* are zero and whose off-diagonal elements keep their signs and take the
\* mean of the absolute values of the two off-diagonal elements: a tensor
\* with Zxy = v and Zyx = -v comes back with the off-diagonals v and -v.
C20_Only1d ==
    (call.op = "only1d" /\ IsNx2x2(z)) =>
        /\ exc = ""
        /\ ret # NoRet
        /\ \A i \in 1..len(z) :
            /\ ret.z1d.data[i][1][1] = QZero
            /\ ret.z1d.data[i][2][2] = QZero
            /\ z.data[i][2][1] = CScale(-1, z.data[i][1][2]) =>
                  /\ ret.z1d.data[i][1][2] = QOf(z.data[i][1][2])
                  /\ ret.z1d.data[i][2][1] = QOf(z.data[i][2][1])


\* tensor[i] has a zero diagonal and Zyx = -Zxy
OneD(i) ==
    /\ z.data[i][1][1] = <<0, 0>>
    /\ z.data[i][2][2] = <<0, 0>>
    /\ z.data[i][2][1] = CScale(-1, z.data[i][1][2])

\* the sum of two errors
ErrSum(a, b) == <<"sum", <<a, b>>>>

\* C19: at every index i where the tensor has a zero diagonal, Zxy = a+bi
\* and Zyx = -(a+bi): trace[i] = 0 and skew[i] = 2(a+bi); invariants gives
\* z1 = a+bi, det = (a+bi)^2 and lambda_plus = lambda_minus = a+bi; when
\* tensor_err is held, the trace error is the sum of the two diagonal errors
\* of tensor_err[i] and the skew error the sum of its two off-diagonal errors.
C19_OneDInvariants ==
    (IsNx2x2(z) /\ call.op \in {"trace", "skew", "invariants"}) =>
        \A i \in 1..len(z) : OneD(i) =>
            LET zxy == z.data[i][1][2]
            IN  /\ exc = ""
                /\ ret # NoRet
                /\ call.op = "trace" =>
                      /\ ret.tr.data[i] = <<0, 0>>
                      /\ (z_err # None /\ i <= len(z_err)) =>
                            ret.tr_err.data[i]
                              = ErrSum(z_err.data[i][1][1], z_err.data[i][2][2])
                /\ call.op = "skew" =>
                      /\ ret.skew.data[i] = CScale(2, zxy)
                      /\ (z_err # None /\ i <= len(z_err)) =>
                            ret.skewerr.data[i]
                              = ErrSum(z_err.data[i][1][2], z_err.data[i][2][1])
                /\ call.op = "invariants" =>
                      /\ ret.z1.data[i] = QOf(zxy)
                      /\ ret.det.data[i] = QMul(QOf(zxy), QOf(zxy))
                      /\ ret.lambda_plus.data[i] = QOf(zxy)
                      /\ ret.lambda_minus.data[i] = QOf(zxy)
                      /\ ret.trace.data[i] = <<0, 0>>
                      /\ ret.skew.data[i] = CScale(2, zxy)

\* the operations of Z that return a value and assign nothing
ReadOnlyOps ==
    {"resistivity", "resistivity_err", "phase", "phase_err", "inverse",
     "remove_ss", "remove_distortion", "only1d", "only2d", "trace", "skew",
     "det", "norm", "invariants"}

\* C21: a call of a read-only operation of Z (resistivity, phase and their
\* errors, inverse, remove_ss, remove_distortion, only1d, only2d, trace,
\* skew, det, norm, invariants) leaves z, z_err, freq, rotation_angle and the
\* derived arrays as they were, whether it returns or raises, and a read of
\* resistivity, phase or one of their errors that directly follows a read of
\* the same attribute returns the same array.
C21_ReadOnlyFrame ==
    [][ /\ call'.op \in ReadOnlyOps => FieldsUnchanged
        /\ (/\ call'.op \in {"resistivity", "resistivity_err", "phase", "phase_err"}
            /\ call.op = call'.op)
           => ret' = ret ]_vars

\* only2d has returned a tensor with a zeroed diagonal from an instance whose
\* tensor has a non-zero diagonal element
C21_Witness ==
    /\ call.op = "only2d"
    /\ exc = ""
    /\ \E i \in 1..len(z) : z.data[i][1][1] # <<0, 0>>
    /\ \A i \in 1..len(z) : ret.z2d.data[i][1][1] = <<0, 0>>
    /\ resistivity # None

\* the shape checks that set_res_phase makes on reserr and phaseerr fail:
\* against the held tensor_err, or against each other when none is held
ErrShapesMismatch(reserr_array, phaseerr_array) ==
    IF z_err # None
    THEN z_err.shape # reserr_array.shape \/ z_err.shape # phaseerr_array.shape
    ELSE reserr_array.shape # phaseerr_array.shape

\* C25: a set_res_phase call with valid res and phase and with res_err and
\* phase_err arrays whose shape does not match the held tensor_err, or each
\* other, returns and leaves z, z_err, resistivity and phase as they were
\* before the call.
C25_ErrShapeMismatchNoOp ==
    [][ (/\ call'.op = "set_res_phase"
         /\ validate_res_phase(Self, call'.args[1], call'.args[2]) = ""
         /\ call'.args[3] # None
         /\ call'.args[4] # None
         /\ ErrShapesMismatch(call'.args[3], call'.args[4]))
        => (/\ exc' = ""
            /\ z' = z
            /\ z_err' = z_err
            /\ resistivity' = resistivity
            /\ phase' = phase) ]_vars

\* C30: a remove_distortion call with an invertible distortion tensor on an
\* instance that holds an Nx2x2 tensor and no tensor_err returns, and the
\* corrected tensor it returns is D^-1 . z at every frequency.
C30_DistortionWithoutErr ==
    (/\ call.op = "remove_distortion"
     /\ Det2(call.args[1].data[1]) # 0
     /\ IsNx2x2(z)
     /\ z_err = None) =>
        /\ exc = ""
        /\ ret # NoRet
        /\ \A i \in 1..len(z) :
             ret.z_corrected.data[i] =
                 QMatMul(invert_distortion(call.args[1].data[1]).DI, QMat(z.data[i]))

\* the real and the imaginary part of a tipper element
Re(c) == c[1]

Im(c) == c[2]

\* C22: right after Tipper(tipper_array, freq = f) with an Nx1x2 array and a
\* frequency array, the induction arrows are defined: at every frequency i
\* mag_real[i] = sqrt(Re(Tx)^2 + Re(Ty)^2) and angle_real[i] is
\* atan2(-Re(Ty), -Re(Tx)) in degrees, and mag_imag and angle_imag are the
\* same expressions of the imaginary parts.
C22_ArrowsAfterConstruct ==
    (/\ call.op = "Tipper.__init__"
     /\ IsNx1x2(call.args[1])
     /\ call.args[3] # None) =>
        /\ tip.mag_real # None
        /\ tip.mag_imag # None
        /\ tip.angle_real # None
        /\ tip.angle_imag # None
        /\ \A i \in 1..len(tip.tipper) :
             LET Tx == tip.tipper.data[i][1]
                 Ty == tip.tipper.data[i][2]
             IN  /\ tip.mag_real.data[i] = hypot(Re(Tx), Re(Ty))
                 /\ tip.angle_real.data[i] = atan2deg(-Re(Ty), -Re(Tx))
                 /\ tip.mag_imag.data[i] = hypot(Im(Tx), Im(Ty))
                 /\ tip.angle_imag.data[i] = atan2deg(-Im(Ty), -Im(Tx))

\* C23: a Z and a Tipper of the same number of frequencies, both with the
\* rotation_angle of the constructor, hold equal rotation_angle arrays after
\* every sequence of rotate calls made on both, whether an angle is a
\* number, a sequence of one angle for each frequency or a sequence of
\* another length.
C23_RotationAngleAsZ ==
    rotation_angle = tip.rotation_angle

\* C24: no array is shared between instances.  A second Tipper constructed
\* from the array that this one was constructed from holds that array as its
\* tipper; whatever mutating call is made on this instance (a setter,
\* set_amp_phase, set_mag_direction, rotate), the tipper of the second
\* instance is after the call what it was before.
C24_NoSharedArray ==
    [][ tip.input_array # None => tip'.input_array = tip.input_array ]_vars

\* amplitude and phase of the instance t are those of its tipper
AmpPhaseFresh(t) ==
    /\ t.amplitude # None
    /\ t.phase # None
    /\ t.amplitude.shape = t.tipper.shape
    /\ t.phase.shape = t.tipper.shape
    /\ \A i \in 1..len(t.tipper) : \A j \in 1..2 :
         /\ t.amplitude.data[i][j] = hypot(Re(t.tipper.data[i][j]), Im(t.tipper.data[i][j]))
         /\ t.phase.data[i][j] = atan2deg(Im(t.tipper.data[i][j]), Re(t.tipper.data[i][j]))

\* the induction arrows of the instance t are those of its tipper
ArrowsFresh(t) ==
    /\ t.mag_real # None
    /\ t.mag_imag # None
    /\ t.angle_real # None
    /\ t.angle_imag # None
    /\ \A i \in 1..len(t.tipper) :
         LET Tx == t.tipper.data[i][1]
             Ty == t.tipper.data[i][2]
         IN  /\ t.mag_real.data[i] = hypot(Re(Tx), Re(Ty))
             /\ t.angle_real.data[i] = atan2deg(-Re(Ty), -Re(Tx))
             /\ t.mag_imag.data[i] = hypot(Im(Tx), Im(Ty))
             /\ t.angle_imag.data[i] = atan2deg(-Im(Ty), -Im(Tx))

\* the angle that a rotate call with the argument alpha applies at frequency i
AngleAt(alpha, i) ==
    IF ndim(alpha) = 0 \/ len(alpha) = 1 THEN alpha.data[1] ELSE alpha.data[i]

\* C26: a Tipper.rotate call with a number or with one angle for each
\* frequency, on an instance that holds an Nx1x2 tipper, a rotation_angle of
\* N entries and either no tipper_err or one of the shape of tipper,
\* returns; after it tipper is the rotated vector at every frequency,
\* tipper_err is the propagated error (None when it was None), and
\* amplitude, phase and the induction arrows are those of the rotated tipper.
C26_RotateWithOrWithoutErr ==
    [][ (/\ call'.op = "Tipper.rotate"
         /\ IsNx1x2(tip.tipper)
         /\ ~isfloat(tip.rotation_angle)
         /\ len(tip.rotation_angle) = len(tip.tipper)
         /\ (tip.tipper_err = None \/ tip.tipper_err.shape = tip.tipper.shape)
         /\ (ndim(call'.args[1]) = 0 \/ len(call'.args[1]) = len(tip.tipper)))
        => (/\ tip'.exc = ""
            /\ \A i \in 1..len(tip.tipper) :
                 LET r == rotatevector_incl_errors(
                              tip.tipper.data[i], AngleAt(call'.args[1], i),
                              IF tip.tipper_err = None THEN <<>>
                              ELSE tip.tipper_err.data[i],
                              tip.tipper_err # None)
                 IN  /\ tip'.tipper.data[i] = r.rot
                     /\ tip.tipper_err # None => tip'.tipper_err.data[i] = r.err
            /\ tip.tipper_err = None => tip'.tipper_err = None
            /\ AmpPhaseFresh(tip')
            /\ ArrowsFresh(tip')) ]_vars

\* the operations of Tipper that assign its tipper or its errors
TipperMutators ==
    {"Tipper._set_tipper", "Tipper._set_tipper_err", "Tipper.set_amp_phase",
     "Tipper.set_mag_direction", "Tipper.rotate"}

\* C27: after every call of a mutating operation of Tipper (assignment of
\* tipper or of tipper_err, set_amp_phase, set_mag_direction, rotate) that
\* returned on an instance that holds a tipper, the derived state is that
\* of the held tipper: amplitude[i, c] = |T[i, c]|, phase[i, c] is the
\* argument of T[i, c] in degrees, and mag_real, mag_imag, angle_real and
\* angle_imag are those of the real and the imaginary parts of T.
C27_DerivedFresh ==
    (/\ call.op \in TipperMutators
     /\ tip.exc = ""
     /\ IsNx1x2(tip.tipper)) =>
        /\ AmpPhaseFresh(tip)
        /\ ArrowsFresh(tip)

\* the attributes of a Tipper record, without the exception of its last call
Attributes(t) == [t EXCEPT !.exc = ""]

\* C28: a Tipper.set_amp_phase call with an r or a phi that has a non-zero
\* imaginary part raises the error of the input arguments
\* (MTpyError_inputarguments) and leaves tipper and every derived attribute
\* as they were.
C28_AmpPhaseDomainViolation ==
    [][ (/\ call'.op = "Tipper.set_amp_phase"
         /\ (HasImag(call'.args[1]) \/ HasImag(call'.args[2])))
        => (/\ tip'.exc = "MTpyError_inputarguments"
            /\ Attributes(tip') = Attributes(tip)) ]_vars

\* the number of angles of alpha is not the number of frequencies of the
\* tipper that t holds
WrongCountOf(t, alpha) == ndim(alpha) = 1 /\ len(alpha) > 1 /\ len(alpha) # len(t.tipper)

\* C29: a Tipper.rotate call with a number as its angle returns, rotates
\* the tipper and leaves rotation_angle an array of N entries when it
\* follows a rotate call that was rejected for its number of angles, and
\* when it follows the assignment of a tipper array to an instance that was
\* constructed without one (whose rotation_angle is still the number 0. of
\* the constructor).
C29_RotateAfterReject ==
    [][ (/\ call'.op = "Tipper.rotate"
         /\ ndim(call'.args[1]) = 0
         /\ IsNx1x2(tip.tipper)
         /\ tip.exc = ""
         /\ \/ call.op = "Tipper.rotate" /\ WrongCountOf(tip, call.args[1])
            \/ /\ call.op = "Tipper._set_tipper"
               /\ tip.tipper = call.args[1]
               /\ isfloat(tip.rotation_angle))
        => (/\ tip'.exc = ""
            /\ \A i \in 1..len(tip.tipper) :
                 tip'.tipper.data[i] =
                     rotatevector_incl_errors(tip.tipper.data[i], call'.args[1].data[1],
                                              <<>>, FALSE).rot
            /\ ndim(tip'.rotation_angle) = 1
            /\ len(tip'.rotation_angle) = len(tip.tipper)) ]_vars

====
